---- MODULE Spec2Model ----
(***************************************************************************)
(* Orchestration core of the AWS cost-estimate agent: the service          *)
(* registry and its workflow planner (services/service_registry.py), the   *)
(* LangGraph state machine of ServiceOrchestrator                          *)
(* (agents/service_orchestrator.py), and the Bedrock rate limiter and      *)
(* retry decorator (utils/rate_limiter.py).                                *)
(*                                                                         *)
(* Spec      one ServiceOrchestrator.run_estimation over the registry the  *)
(*           service modules build at import, or one                       *)
(*           CostEstimationWorkflow.run_estimation                         *)
(*           (workflows/cost_estimation_workflow.py).                      *)
(* SpecLive  Spec, with the started graph run driven to its end.            *)
(* SpecPlan  ServiceRegistry.get_workflow_plan, called twice, for any      *)
(*           request and any registry content.                             *)
(* SpecLimiter    sequential BedrockRateLimiter.wait_if_needed calls.      *)
(* SpecLimiterMT  wait_if_needed called by threads sharing one limiter.    *)
(* SpecRetry      one call of the wrapper of with_retry_and_backoff.       *)
(* SpecRegistry   register_service calls on a fresh ServiceRegistry.       *)
(* SpecGenerate   one call of the _generate that create_bedrock_client     *)
(*           wraps with the retry decorator and the limiter                *)
(*           (utils/aws_config.py).                                        *)
(* SpecRuns  up to MaxRuns ServiceOrchestrator.run_estimation calls, one    *)
(*           after the other, on one orchestrator.                         *)
(* SpecClient  get_bedrock_llm / BedrockConfig.create_bedrock_client calls  *)
(*           and calls of the cached client's _generate                    *)
(*           (utils/aws_config.py).                                        *)
(* SpecLink  one call of                                                   *)
(*           UnifiedAWSBrowserAgent._extract_estimate_link_from_result     *)
(*           (agents/browser_agent.py).                                    *)
(***************************************************************************)
EXTENDS Integers, Sequences, FiniteSets, TLC

VARIABLES
    _services,              \* ServiceRegistry._services: key -> handler
    pc,                     \* node of the graph the run is at
    services_config,        \* the request: ordered (key, config) pairs
    workflow_plan,          \* state["workflow_plan"]
    current_service_index,  \* state["current_service_index"]
    completed_services,     \* state["completed_services"]
    failed_services,        \* state["failed_services"]
    browser_session,        \* state["browser_session"]
    estimate_links,         \* state["estimate_links"]
    error_message,          \* state["error_message"]
    result,                 \* the dict run_estimation returns
    exec_log,               \* history: browser_agent.run calls made for services
    plan_services,          \* SpecPlan: the argument of get_workflow_plan
    plan_out,               \* SpecPlan: the plan it returned
    plan_out2,              \* SpecPlan: the plan a second call returned
    cew_pc,                 \* CostEstimationWorkflow: node the run is at
    parsed_services,        \* EstimationState["parsed_services"]
    services_to_add,        \* EstimationState["services_to_add"]
    cew_index,              \* EstimationState["current_service_index"]
    added_services,         \* EstimationState["added_services"]
    cew_failed_services,    \* EstimationState["failed_services"]
    cew_estimate_links,     \* EstimationState["estimate_links"]
    cew_error_message,      \* EstimationState["error_message"]
    final_result,           \* EstimationState["final_result"]
    add_log,                \* history: workflow_agent.run calls made for services
    now,                    \* BedrockRateLimiter: the clock, time.time(), in seconds
    requests_per_minute,    \* BedrockRateLimiter.requests_per_minute
    request_count,          \* BedrockRateLimiter.request_count
    minute_start,           \* BedrockRateLimiter.minute_start
    last_request_time,      \* BedrockRateLimiter.last_request_time
    call_log,               \* history: the wait_if_needed calls that returned
    t_pc,                   \* per thread: the line of wait_if_needed it is at
    t_current_time,         \* per thread: the local current_time
    t_wake,                 \* per thread: when its time.sleep ends
    max_retries,            \* with_retry_and_backoff: the decorator's max_retries
    base_delay,             \* with_retry_and_backoff: the decorator's base_delay
    attempt,                \* wrapper: the loop variable
    attempt_log,            \* history: what each call of func did
    sleep_log,              \* history: the time.sleep calls of the wrapper
    retry_result,           \* what the wrapper returned or raised
    retry_pc,               \* wrapper: "idle", "running" or "done"
    _categories,            \* ServiceRegistry._categories
    reg_log,                \* history: the register_service calls
    last_query,             \* SpecRegistry: the latest query call and its answer
    run_overdue,            \* history: the run-level time budget has run out
    started_at_deadline,    \* history: services started when it ran out
    earlier_runs,           \* SpecRuns: what the earlier runs returned and recorded
    link_result,            \* SpecLink: the agent result handed to the extractor
    link_returned,          \* SpecLink: what the extractor returned
    _client,                \* BedrockConfig._client: the cached ChatBedrock
    _credentials_validated, \* BedrockConfig._credentials_validated
    client_log,             \* history: what each client request returned
    generate_call           \* history: the last call of the cached _generate

vars == <<_services, pc, services_config, workflow_plan, current_service_index,
          completed_services, failed_services, browser_session, estimate_links,
          error_message, result, exec_log, plan_services, plan_out, plan_out2,
          cew_pc, parsed_services, services_to_add, cew_index, added_services,
          cew_failed_services, cew_estimate_links, cew_error_message,
          final_result, add_log,
          now, requests_per_minute, request_count, minute_start,
          last_request_time, call_log, t_pc, t_current_time, t_wake,
          max_retries, base_delay, attempt, attempt_log, sleep_log,
          retry_result, retry_pc, _categories, reg_log, last_query,
          run_overdue, started_at_deadline, earlier_runs, link_result,
          link_returned, _client, _credentials_validated, client_log,
          generate_call>>

\* the wall clock of a run, which no line of run_estimation reads
deadline_vars == <<run_overdue, started_at_deadline>>

\* the final states and reports of the runs made before the current one
runs_vars == <<earlier_runs>>

\* argument and return value of _extract_estimate_link_from_result
link_vars == <<link_result, link_returned>>

\* the BedrockConfig singleton, the clients it handed out and the last call
\* of the cached client's _generate
client_vars == <<_client, _credentials_validated, client_log, generate_call>>

orch_vars == <<pc, services_config, workflow_plan, current_service_index,
               completed_services, failed_services, browser_session,
               estimate_links, error_message, result, exec_log, deadline_vars,
               runs_vars,
               link_vars, client_vars>>

plan_vars == <<plan_services, plan_out, plan_out2>>

cew_vars == <<cew_pc, parsed_services, services_to_add, cew_index, added_services,
              cew_failed_services, cew_estimate_links, cew_error_message,
              final_result, add_log>>

limiter_vars == <<now, requests_per_minute, request_count, minute_start,
                  last_request_time, call_log, t_pc, t_current_time, t_wake>>

retry_vars == <<max_retries, base_delay, attempt, attempt_log, sleep_log,
                retry_result, retry_pc>>

registry_vars == <<_categories, reg_log, last_query>>

\* what the orchestrator, the workflow and the planner leave alone
aux_vars == <<limiter_vars, retry_vars, registry_vars, deadline_vars, runs_vars,
              link_vars, client_vars>>

(***************************************************************************)
(* Bounds                                                                  *)
(***************************************************************************)
\* longest request (number of keys of services_config / of the planner input)
MaxReq == 3

\* most run_estimation calls made one after the other
MaxRuns == 2

\* most get_bedrock_llm / create_bedrock_client calls made on one process
MaxClientCalls == 3

\* most wait_if_needed calls made on one limiter
MaxCalls == 4

\* most wait_if_needed calls the threads sharing a limiter make in all
MaxThreadCalls == 3

\* largest max_retries a call is wrapped with
MaxRetries == 3

\* most register_service calls made on one registry
MaxRegs == 3

(***************************************************************************)
(* Sequence helpers                                                        *)
(***************************************************************************)
Range(s) == {s[i] : i \in 1..Len(s)}

Contains(s, x) == \E i \in 1..Len(s) : s[i] = x

NoDuplicates(s) == \A i, j \in 1..Len(s) : s[i] = s[j] => i = j

\* position of the first occurrence of x in s (0 when absent)
IndexOf(s, x) == IF Contains(s, x) THEN CHOOSE i \in 1..Len(s) : s[i] = x /\ \A j \in 1..(i-1) : s[j] # x ELSE 0

\* s is a subsequence of t when both are duplicate-free
InOrderOf(s, t) == \A i, j \in 1..Len(s) : i < j => IndexOf(t, s[i]) < IndexOf(t, s[j])

RECURSIVE Concat(_)
Concat(ss) == IF ss = <<>> THEN <<>> ELSE Head(ss) \o Concat(Tail(ss))

RECURSIVE SumSeq(_)
SumSeq(s) == IF s = <<>> THEN 0 ELSE Head(s) + SumSeq(Tail(s))

(***************************************************************************)
(* Service handlers (BaseServiceHandler and its subclasses)                *)
(*                                                                         *)
(* A handler is the record of what its methods return: required lists the  *)
(* fields validate_config requires, numeric the first field it parses as   *)
(* a number.  A configuration is the set of its fields that carry a        *)
(* well-formed, truthy value, plus tokens "<field>=bad" for fields         *)
(* carrying a malformed value.                                             *)
(***************************************************************************)
NoHandler == [name |-> "None"]

VPCServiceHandler ==
    [name |-> "Amazon VPC", category |-> "networking", timeout |-> 100,
     complexity |-> 4, required |-> <<>>, numeric |-> <<"nat_gateways">>]

EC2ServiceHandler ==
    [name |-> "Amazon EC2", category |-> "compute", timeout |-> 180,
     complexity |-> 8,
     required |-> <<"instance_type", "operating_system", "region">>,
     numeric |-> <<"quantity">>]

S3ServiceHandler ==
    [name |-> "Amazon S3", category |-> "storage", timeout |-> 240,
     complexity |-> 9, required |-> <<"region">>,
     numeric |-> <<"storage_amount">>]

RDSServiceHandler ==
    [name |-> "Amazon RDS", category |-> "database", timeout |-> 140,
     complexity |-> 7, required |-> <<"engine", "instance_class">>,
     numeric |-> <<"allocated_storage">>]

BedrockServiceHandler ==
    [name |-> "Amazon Bedrock", category |-> "ml", timeout |-> 120,
     complexity |-> 7, required |-> <<"model">>, numeric |-> <<"input_tokens">>]

\* ServiceTemplate.create_basic_service: a handler of any category, with the
\* base class's timeout and complexity
DynamicServiceHandler(category) ==
    [name |-> "Dynamic", category |-> category, timeout |-> 120,
     complexity |-> 5, required |-> <<>>, numeric |-> <<>>]

get_service_category(handler) == handler.category

\* handler.get_default_config(): the fields it supplies a valid value for;
\* every handler's defaults hold its required and its numeric fields
get_default_config(handler) == Range(handler.required) \cup Range(handler.numeric)

get_timeout_seconds(handler) == handler.timeout

get_complexity_score(handler) == handler.complexity

Bad(field) == field \o "=bad"

\* handler.validate_config(config): one error per missing required field, in
\* the order the method tests them, then one per malformed numeric field
validate_config(service_type, handler, config) ==
    LET req == SelectSeq(handler.required, LAMBDA f : f \notin config)
        num == SelectSeq(handler.numeric, LAMBDA f : Bad(f) \in config)
    IN  [i \in 1..Len(req) |-> [service |-> service_type, field |-> req[i], text |-> "is required"]]
        \o [i \in 1..Len(num) |-> [service |-> service_type, field |-> num[i], text |-> "must be a valid number"]]

(***************************************************************************)
(* ServiceRegistry                                                         *)
(***************************************************************************)
\* the keys the model registers or requests
Keys == {"vpc", "ec2", "s3", "rds", "unknown_service"}

\* the catalog after the service modules are imported
RegisteredServices ==
    [k \in Keys |->
        CASE k = "vpc" -> VPCServiceHandler
          [] k = "ec2" -> EC2ServiceHandler
          [] k = "s3"  -> S3ServiceHandler
          [] k = "rds" -> RDSServiceHandler
          [] OTHER     -> NoHandler]

get_handler(service_type) == _services[service_type]

\* {**self.get_default_config(), **config}: a field of the request, valid or
\* malformed, takes the place of the default
MergedConfig(handler, config) ==
    config \cup {f \in get_default_config(handler) : Bad(f) \notin config}

ValidatedConfig_mut_merged(handler, config) == MergedConfig(handler, config)

\* line 102: the dict handed to handler.validate_config is the request's own
ValidatedConfig(handler, config) == config

validate_service_config(service_type, config) ==
    LET handler == get_handler(service_type)
    IN  IF handler = NoHandler
        THEN << [service |-> service_type, field |-> "", text |-> "Unknown service type"] >>
        ELSE validate_config(service_type, handler, ValidatedConfig(handler, config))

priority_order_mut_swapped ==
    <<"compute", "networking", "storage", "database", "analytics", "ml", "security">>

priority_order ==
    <<"networking", "compute", "storage", "database", "analytics", "ml", "security">>

Reverse(s) == [i \in 1..Len(s) |-> s[Len(s) + 1 - i]]

category_group_mut_reversed(services, category) ==
    Reverse(SelectSeq(services, LAMBDA k : _services[k] # NoHandler
                                           /\ _services[k].category = category))

category_group_mut_called(services, category) ==
    IF plan_out = [empty |-> TRUE]
    THEN SelectSeq(services, LAMBDA k : _services[k] # NoHandler
                                        /\ _services[k].category = category)
    ELSE category_group_mut_reversed(services, category)

category_group_mut_single(services, category) ==
    LET g == SelectSeq(services, LAMBDA k : _services[k] # NoHandler
                                            /\ _services[k].category = category)
    IN  IF g = <<>> THEN g ELSE <<g[Len(g)]>>

\* plan["category_groups"][category]: the requested keys that have a handler
\* of that category, in request order
category_group(services, category) ==
    SelectSeq(services, LAMBDA k : get_handler(k) # NoHandler
                                   /\ get_service_category(get_handler(k)) = category)

category_groups(services) ==
    LET present == {get_service_category(get_handler(services[i])) :
                        i \in {j \in 1..Len(services) : get_handler(services[j]) # NoHandler}}
    IN  [c \in present |-> category_group(services, c)]

\* the first loop over priority_order
PriorityOrdered(services) ==
    LET groups == category_groups(services)
    IN  Concat([i \in 1..Len(priority_order) |->
                    IF priority_order[i] \in DOMAIN groups
                    THEN groups[priority_order[i]] ELSE <<>>])

AppendRemaining_mut_nocheck(services, ordered_services) == ordered_services \o services

\* the second loop: every requested key not yet in ordered_services
RECURSIVE AppendRemaining(_, _)
AppendRemaining(services, ordered_services) ==
    IF services = <<>> THEN ordered_services
    ELSE AppendRemaining(Tail(services),
                         IF Contains(ordered_services, Head(services))
                         THEN ordered_services
                         ELSE Append(ordered_services, Head(services)))

service_order_of(services) == AppendRemaining(services, PriorityOrdered(services))

get_workflow_plan(services) ==
    LET handled == SelectSeq(services, LAMBDA k : get_handler(k) # NoHandler)
        score == SumSeq([i \in 1..Len(handled) |-> get_complexity_score(get_handler(handled[i]))])
    IN  [services |-> services,
         total_estimated_time |->
             SumSeq([i \in 1..Len(handled) |-> get_timeout_seconds(get_handler(handled[i]))]),
         complexity_score |-> score,
         service_order |-> service_order_of(services),
         category_groups |-> category_groups(services),
         average_complexity |-> IF services # <<>>
                                THEN [num |-> score, den |-> Len(services)]
                                ELSE [num |-> 0, den |-> 1]]

(***************************************************************************)
(* ServiceOrchestrator: the graph                                          *)
(*   plan_workflow -> initialize_browser -> process_service                *)
(*   process_service -[_service_router]-> process_service                  *)
(*                                      | finalize_estimate | handle_error *)
(*   finalize_estimate -> END, handle_error -> END                         *)
(***************************************************************************)
EmptyPlan == [empty |-> TRUE]

NoError == [kind |-> "", detail |-> <<>>]

NoResult == [status |-> "none"]

HasKey(d, k) == k \in DOMAIN d

\* list(services_config.keys())
KeysOf(config) == [i \in 1..Len(config) |-> config[i].key]

\* the configurations a request may carry for a key: complete, empty, and
\* complete with a malformed numeric field
ConfigChoices(k) ==
    LET h == RegisteredServices[k]
    IN  IF h = NoHandler THEN {{}}
        ELSE {Range(h.required), {}}
             \cup {Range(h.required) \cup {Bad(h.numeric[i])} : i \in 1..Len(h.numeric)}

Entries == UNION {{[key |-> k, config |-> c] : c \in ConfigChoices(k)} : k \in Keys}

\* a dict: at most MaxReq entries, no key twice
Requests ==
    UNION {{r \in [1..n -> Entries] : NoDuplicates(KeysOf(r))} : n \in 0..MaxReq}

\* what one browser_agent.run under asyncio.wait_for can do
RunOutcomes == {"returned", "raised", "timeout"}

\* run_estimation, lines 344-356: a fresh initial_state is handed to the graph
RunEstimation ==
    /\ pc = "idle"
    /\ cew_pc = "idle"
    /\ \E r \in Requests : services_config' = r
    /\ workflow_plan' = EmptyPlan
    /\ current_service_index' = 0
    /\ completed_services' = <<>>
    /\ failed_services' = <<>>
    /\ browser_session' = "None"
    /\ estimate_links' = {}
    /\ error_message' = NoError
    /\ result' = NoResult
    /\ exec_log' = <<>>
    /\ pc' = "plan_workflow"
    /\ UNCHANGED <<_services, aux_vars, plan_vars, cew_vars>>

ValidationErrors_mut_first(config) ==
    LET per_key == [i \in 1..Len(config) |->
                        validate_service_config(config[i].key, config[i].config)]
        failing == {i \in 1..Len(config) : per_key[i] # <<>>}
    IN  IF failing = {} THEN <<>>
        ELSE per_key[CHOOSE i \in failing : \A j \in failing : i <= j]

\* the validation loop of plan_workflow
ValidationErrors(config) ==
    Concat([i \in 1..Len(config) |->
                validate_service_config(config[i].key, config[i].config)])

PlanStored_mut_always(validation_errors) == TRUE

\* lines 106-113: the plan is stored only when no validation error was found
PlanStored(validation_errors) == validation_errors = <<>>

plan_workflow ==
    /\ pc = "plan_workflow"
    /\ LET service_types == KeysOf(services_config)
           plan == get_workflow_plan(service_types)
           validation_errors == ValidationErrors(services_config)
       IN  /\ error_message' = IF validation_errors # <<>>
                               THEN [kind |-> "Configuration validation failed",
                                     detail |-> validation_errors]
                               ELSE error_message
           /\ IF PlanStored(validation_errors)
              THEN /\ workflow_plan' = plan
                   /\ current_service_index' = 0
                   /\ completed_services' = <<>>
                   /\ failed_services' = <<>>
              ELSE UNCHANGED <<workflow_plan, current_service_index,
                               completed_services, failed_services>>
    /\ pc' = "initialize_browser"
    /\ UNCHANGED <<_services, aux_vars, services_config, browser_session, estimate_links,
                   result, exec_log, plan_vars, cew_vars>>

\* initialize_browser: _build_comprehensive_task reads the plan (KeyError on an
\* empty one), then the Agent is constructed, which may raise
initialize_browser ==
    /\ pc = "initialize_browser"
    /\ \E constructed \in BOOLEAN :
          IF HasKey(workflow_plan, "service_order") /\ constructed
          THEN /\ browser_session' = "Agent"
               /\ UNCHANGED error_message
          ELSE /\ error_message' = [kind |-> "Browser initialization failed", detail |-> <<>>]
               /\ UNCHANGED browser_session
    /\ pc' = "process_service"
    /\ UNCHANGED <<_services, aux_vars, services_config, workflow_plan, current_service_index,
                   completed_services, failed_services, estimate_links, result,
                   exec_log, plan_vars, cew_vars>>

_service_router_mut_loop(error, current_index, total_services) ==
    IF error.kind # "" THEN "error"
    ELSE IF current_index > total_services THEN "finalize"
    ELSE "continue"

_service_router_mut_early(error, current_index, total_services) ==
    IF error.kind # "" THEN "error"
    ELSE IF current_index + 1 >= total_services THEN "finalize"
    ELSE "continue"

_service_router(error, current_index, total_services) ==
    IF error.kind # "" THEN "error"
    ELSE IF current_index >= total_services THEN "finalize"
    ELSE "continue"

\* the node each router answer leads to
RouteTarget(answer) ==
    CASE answer = "continue" -> "process_service"
      [] answer = "finalize" -> "finalize_estimate"
      [] answer = "error"    -> "handle_error"

_execute_service_workflow_mut_timeout(session, outcome) ==
    IF session = "None" THEN FALSE
    ELSE outcome \in {"returned", "timeout"}

\* _execute_service_workflow: True unless the run raises or times out; a
\* session that is None makes browser_agent.run raise AttributeError
_execute_service_workflow(session, outcome) ==
    IF session = "None" THEN FALSE
    ELSE outcome = "returned"

NextIndex_mut_skip(current_index) == current_index + 2

NextIndex_mut_jump(current_index) == current_index + current_index + 1

\* line 186
NextIndex(current_index) == current_index + 1

\* the total the router computes: len(state["workflow_plan"].get("service_order", []))
TotalServices(plan) == IF HasKey(plan, "service_order") THEN Len(plan.service_order) ELSE 0

\* line 199 and the handlers' get_service_instructions: the instructions of
\* a service are written from its requested configuration merged over the
\* handler's defaults
InstructedConfig(handler, config, service_type) ==
    MergedConfig(handler, config[IndexOf(KeysOf(config), service_type)].config)

process_single_service ==
    /\ pc = "process_service"
    /\ \E outcome \in RunOutcomes :
          IF ~HasKey(workflow_plan, "service_order")
          THEN \* KeyError at line 151
               /\ error_message' = [kind |-> "Service processing error", detail |-> <<>>]
               /\ UNCHANGED <<current_service_index, completed_services,
                              failed_services, exec_log>>
          ELSE IF current_service_index >= Len(workflow_plan.service_order)
          THEN UNCHANGED <<error_message, current_service_index, completed_services,
                           failed_services, exec_log>>
          ELSE LET service_type == workflow_plan.service_order[current_service_index + 1]
                   handler == get_handler(service_type)
                   success == _execute_service_workflow(browser_session, outcome)
               IN  IF handler = NoHandler
                   THEN \* ValueError at line 164
                        /\ error_message' = [kind |-> "Service processing error", detail |-> <<>>]
                        /\ UNCHANGED <<current_service_index, completed_services,
                                       failed_services, exec_log>>
                   ELSE /\ exec_log' = IF browser_session = "None" THEN exec_log
                                       ELSE Append(exec_log,
                                                   [key |-> service_type,
                                                    outcome |-> outcome,
                                                    instructed |->
                                                        InstructedConfig(handler,
                                                                         services_config,
                                                                         service_type)])
                        /\ completed_services' = IF success
                                                 THEN Append(completed_services, service_type)
                                                 ELSE completed_services
                        /\ failed_services' = IF success THEN failed_services
                                              ELSE Append(failed_services, service_type)
                        /\ current_service_index' = NextIndex(current_service_index)
                        /\ UNCHANGED error_message
    /\ pc' = RouteTarget(_service_router(error_message', current_service_index',
                                         TotalServices(workflow_plan)))
    /\ UNCHANGED <<_services, aux_vars, services_config, workflow_plan, browser_session,
                   estimate_links, result, plan_vars, cew_vars>>

\* Time passes while the graph runs: the sum of the planned timeouts plus any
\* fixed margin runs out between two service steps (the Agent constructor and
\* the steps between the awaited runs are not bounded by any timeout).
\* Nothing in run_estimation or in the nodes reads a clock.
RunTimeoutElapses ==
    /\ pc = "process_service"
    /\ browser_session = "Agent"
    /\ ~run_overdue
    /\ current_service_index < TotalServices(workflow_plan)
    /\ run_overdue' = TRUE
    /\ started_at_deadline' = Len(exec_log)
    /\ UNCHANGED <<_services, limiter_vars, retry_vars, registry_vars, pc,
                   services_config, workflow_plan, current_service_index,
                   completed_services, failed_services, browser_session,
                   estimate_links, error_message, result, exec_log, plan_vars,
                   cew_vars, link_vars, runs_vars, client_vars>>

\* what the finalization run can do: return a result that holds an estimate
\* link, return one that holds none, raise, or time out
FinalizeOutcomes == {"link", "nolink", "raised", "timeout"}

finalize_estimate ==
    /\ pc = "finalize_estimate"
    /\ \E outcome \in FinalizeOutcomes :
          IF browser_session # "None" /\ outcome \in {"link", "nolink"}
          THEN /\ estimate_links' = IF outcome = "link"
                                    THEN {"ondemand", "savings_plan", "real_link"}
                                    ELSE estimate_links
               /\ UNCHANGED error_message
          ELSE /\ error_message' = [kind |-> "Finalization failed", detail |-> <<>>]
               /\ UNCHANGED estimate_links
    /\ pc' = "END"
    /\ UNCHANGED <<_services, aux_vars, services_config, workflow_plan, current_service_index,
                   completed_services, failed_services, browser_session, result,
                   exec_log, plan_vars, cew_vars>>

handle_error ==
    /\ pc = "handle_error"
    /\ pc' = "END"
    /\ UNCHANGED <<_services, aux_vars, services_config, workflow_plan, current_service_index,
                   completed_services, failed_services, browser_session,
                   estimate_links, error_message, result, exec_log, plan_vars, cew_vars>>

\* run_estimation, lines 358-377: the report built from final_state
FormatResult(error, completed, failed, links, plan, config) ==
    IF error.kind # ""
    THEN [status |-> "error", error |-> error, services_attempted |-> KeysOf(config)]
    ELSE [status |-> "success",
          services_added |-> completed,
          services_failed |-> failed,
          estimate_links |-> links,
          workflow_plan |-> plan,
          summary |-> [total_services |-> Len(config),
                       successful |-> Len(completed),
                       failed |-> Len(failed)]]

run_estimation_return ==
    /\ pc = "END"
    /\ result' = FormatResult(error_message, completed_services, failed_services,
                              estimate_links, workflow_plan, services_config)
    /\ pc' = "returned"
    /\ UNCHANGED <<_services, aux_vars, services_config, workflow_plan, current_service_index,
                   completed_services, failed_services, browser_session,
                   estimate_links, error_message, exec_log, plan_vars, cew_vars>>

(***************************************************************************)
(* CostEstimationWorkflow: the graph                                       *)
(*   parse_input -> validate_config -[_validation_router]->                *)
(*       navigate_calculator | handle_error                                *)
(*   navigate_calculator -> prepare_services -> add_single_service         *)
(*   add_single_service -> check_more_services -[_more_services_router]->  *)
(*       add_single_service | generate_links                               *)
(*   generate_links -> format_result -> END, handle_error -> END           *)
(***************************************************************************)
\* the keys the template parser may return
CEWKeys == {"vpc", "ec2", "rds", "s3", "lambda", "cloudfront"}

\* the configurations the parser may return for a key
CEWConfigChoices(k) ==
    CASE k = "ec2" -> {{"instance_type", "quantity"}, {}}
      [] k = "rds" -> {{"engine", "instance_class"}, {"engine"}}
      [] OTHER     -> {{}}

CEWEntries == UNION {{[key |-> k, config |-> c] : c \in CEWConfigChoices(k)} : k \in CEWKeys}

\* a parsed dict: at most MaxReq entries, no key twice
CEWRequests ==
    UNION {{r \in [1..n -> CEWEntries] : NoDuplicates(KeysOf(r))} : n \in 0..MaxReq}

\* TemplateParser.validate_configuration: the errors of one entry
TemplateErrors(service_type, config) ==
    LET need == CASE service_type = "ec2" -> <<"instance_type", "quantity">>
                  [] service_type = "rds" -> <<"engine", "instance_class">>
                  [] OTHER                -> <<>>
        missing == SelectSeq(need, LAMBDA f : f \notin config)
    IN  [i \in 1..Len(missing) |-> [service |-> service_type, field |-> missing[i]]]

\* run_estimation, lines 349-365
CEW_RunEstimation ==
    /\ pc = "idle"
    /\ cew_pc = "idle"
    /\ parsed_services' = <<>>
    /\ services_to_add' = <<>>
    /\ cew_index' = 0
    /\ added_services' = <<>>
    /\ cew_failed_services' = <<>>
    /\ cew_estimate_links' = {}
    /\ cew_error_message' = ""
    /\ final_result' = NoResult
    /\ add_log' = <<>>
    /\ cew_pc' = "parse_input"
    /\ UNCHANGED <<_services, aux_vars, orch_vars, plan_vars>>

\* parse_user_input: the parser returns a dict of services or raises
parse_user_input ==
    /\ cew_pc = "parse_input"
    /\ \/ \E services \in CEWRequests :
             /\ parsed_services' = services
             /\ cew_index' = 0
             /\ added_services' = <<>>
             /\ cew_failed_services' = <<>>
             /\ UNCHANGED cew_error_message
       \/ /\ cew_error_message' = "Error parsing input"
          /\ UNCHANGED <<parsed_services, cew_index, added_services, cew_failed_services>>
    /\ cew_pc' = "validate_config"
    /\ UNCHANGED <<_services, aux_vars, orch_vars, plan_vars, services_to_add,
                   cew_estimate_links, final_result, add_log>>

_validation_router(error) == IF error # "" THEN "invalid" ELSE "valid"

validate_configuration ==
    /\ cew_pc = "validate_config"
    /\ LET errors == Concat([i \in 1..Len(parsed_services) |->
                                TemplateErrors(parsed_services[i].key,
                                               parsed_services[i].config)])
       IN  cew_error_message' =
               IF parsed_services = <<>> THEN "No valid services found in user input"
               ELSE IF errors # <<>> THEN "Configuration errors"
               ELSE cew_error_message
    /\ cew_pc' = IF _validation_router(cew_error_message') = "valid"
                 THEN "navigate_calculator" ELSE "handle_error"
    /\ UNCHANGED <<_services, aux_vars, orch_vars, plan_vars, parsed_services, services_to_add,
                   cew_index, added_services, cew_failed_services,
                   cew_estimate_links, final_result, add_log>>

\* what browser_agent.initialize_browser_session() can do:
\* UnifiedAWSBrowserAgent defines no such method, so the call raises
NavigateOutcomes == {"raised"}

navigate_to_calculator ==
    /\ cew_pc = "navigate_calculator"
    /\ \E outcome \in NavigateOutcomes :
          cew_error_message' =
              CASE outcome = "true"   -> cew_error_message
                [] outcome = "false"  -> "Failed to initialize browser session"
                [] outcome = "raised" -> "Navigation error"
    /\ cew_pc' = "prepare_services"
    /\ UNCHANGED <<_services, aux_vars, orch_vars, plan_vars, parsed_services, services_to_add,
                   cew_index, added_services, cew_failed_services,
                   cew_estimate_links, final_result, add_log>>

\* line 197
cew_service_order_mut_swapped == <<"ec2", "vpc", "rds", "s3", "load_balancer">>

cew_service_order == <<"vpc", "ec2", "rds", "s3", "load_balancer">>

\* prepare_services_queue, lines 200-208
OrderedServices(services) ==
    AppendRemaining(services,
                    SelectSeq(cew_service_order, LAMBDA k : Contains(services, k)))

prepare_services_queue ==
    /\ cew_pc = "prepare_services"
    /\ services_to_add' = OrderedServices(KeysOf(parsed_services))
    /\ cew_index' = 0
    /\ cew_pc' = "add_single_service"
    /\ UNCHANGED <<_services, aux_vars, orch_vars, plan_vars, parsed_services, added_services,
                   cew_failed_services, cew_estimate_links, cew_error_message,
                   final_result, add_log>>

\* UnifiedAWSBrowserAgent.add_service_by_type: run_complete_workflow answers
\* status success when workflow_agent.run returns, status error when it
\* raises or times out
add_service_by_type(outcome) == outcome = "returned"

add_single_service ==
    /\ cew_pc = "add_single_service"
    /\ \E outcome \in RunOutcomes :
          IF cew_index >= Len(services_to_add)
          THEN UNCHANGED <<added_services, cew_failed_services, cew_index, add_log>>
          ELSE LET current_service == services_to_add[cew_index + 1]
                   success == add_service_by_type(outcome)
               IN  /\ add_log' = Append(add_log, [key |-> current_service,
                                                  outcome |-> outcome])
                   /\ added_services' = IF success
                                        THEN Append(added_services, current_service)
                                        ELSE added_services
                   /\ cew_failed_services' = IF success THEN cew_failed_services
                                             ELSE Append(cew_failed_services, current_service)
                   /\ cew_index' = cew_index + 1
    /\ cew_pc' = "check_more_services"
    /\ UNCHANGED <<_services, aux_vars, orch_vars, plan_vars, parsed_services, services_to_add,
                   cew_estimate_links, cew_error_message, final_result>>

_more_services_router(current_index, total_services) ==
    IF current_index < total_services THEN "more" ELSE "done"

check_more_services ==
    /\ cew_pc = "check_more_services"
    /\ cew_pc' = IF _more_services_router(cew_index, Len(services_to_add)) = "more"
                 THEN "add_single_service" ELSE "generate_links"
    /\ UNCHANGED <<_services, aux_vars, orch_vars, plan_vars, parsed_services, services_to_add,
                   cew_index, added_services, cew_failed_services,
                   cew_estimate_links, cew_error_message, final_result, add_log>>

\* generate_estimate_links: get_estimate_links answers its placeholder links
generate_estimate_links ==
    /\ cew_pc = "generate_links"
    /\ cew_estimate_links' = {"ondemand", "savings_plan"}
    /\ cew_pc' = "format_result"
    /\ UNCHANGED <<_services, aux_vars, orch_vars, plan_vars, parsed_services, services_to_add,
                   cew_index, added_services, cew_failed_services,
                   cew_error_message, final_result, add_log>>

result_status_mut_error(error) == IF error # "" THEN "error" ELSE "success"

\* format_final_result, line 306: the status is the literal "success",
\* whatever error_message holds
result_status(error) == "success"

format_final_result ==
    /\ cew_pc = "format_result"
    /\ final_result' = [status |-> result_status(cew_error_message),
                        services_requested |-> KeysOf(parsed_services),
                        services_added |-> added_services,
                        services_failed |-> cew_failed_services,
                        estimate_links |-> cew_estimate_links,
                        summary |-> [total_services |-> Len(parsed_services),
                                     successful |-> Len(added_services),
                                     failed |-> Len(cew_failed_services)]]
    /\ cew_pc' = "END"
    /\ UNCHANGED <<_services, aux_vars, orch_vars, plan_vars, parsed_services, services_to_add,
                   cew_index, added_services, cew_failed_services,
                   cew_estimate_links, cew_error_message, add_log>>

cew_handle_error ==
    /\ cew_pc = "handle_error"
    /\ final_result' = [status |-> "error", error |-> cew_error_message,
                        services_requested |-> KeysOf(parsed_services)]
    /\ cew_pc' = "END"
    /\ UNCHANGED <<_services, aux_vars, orch_vars, plan_vars, parsed_services, services_to_add,
                   cew_index, added_services, cew_failed_services,
                   cew_estimate_links, cew_error_message, add_log>>

\* run_estimation, lines 366-374: final_state["final_result"] is returned
cew_run_estimation_return ==
    /\ cew_pc = "END"
    /\ cew_pc' = "returned"
    /\ UNCHANGED <<_services, aux_vars, orch_vars, plan_vars, parsed_services, services_to_add,
                   cew_index, added_services, cew_failed_services,
                   cew_estimate_links, cew_error_message, final_result, add_log>>

CEWInit ==
    /\ cew_pc = "idle"
    /\ parsed_services = <<>>
    /\ services_to_add = <<>>
    /\ cew_index = 0
    /\ added_services = <<>>
    /\ cew_failed_services = <<>>
    /\ cew_estimate_links = {}
    /\ cew_error_message = ""
    /\ final_result = NoResult
    /\ add_log = <<>>

\* no ServiceOrchestrator run is under way
OrchIdle ==
    /\ pc = "idle"
    /\ services_config = <<>>
    /\ workflow_plan = EmptyPlan
    /\ current_service_index = 0
    /\ completed_services = <<>>
    /\ failed_services = <<>>
    /\ browser_session = "None"
    /\ estimate_links = {}
    /\ error_message = NoError
    /\ result = NoResult
    /\ exec_log = <<>>
    /\ run_overdue = FALSE
    /\ started_at_deadline = 0
    /\ earlier_runs = <<>>

\* get_workflow_plan has not been called
PlanIdle ==
    /\ plan_services = <<>>
    /\ plan_out = EmptyPlan
    /\ plan_out2 = EmptyPlan

\* the threads that may share the limiter
Threads == {1, 2}

\* no limiter is in use
LimiterIdle ==
    /\ now = 0
    /\ requests_per_minute = 0
    /\ request_count = 0
    /\ minute_start = 0
    /\ last_request_time = 0
    /\ call_log = <<>>
    /\ t_pc = [t \in Threads |-> "idle"]
    /\ t_current_time = [t \in Threads |-> 0]
    /\ t_wake = [t \in Threads |-> 0]

\* no wrapped call is under way
RetryIdle ==
    /\ max_retries = 0
    /\ base_delay = 0
    /\ attempt = 0
    /\ attempt_log = <<>>
    /\ sleep_log = <<>>
    /\ retry_result = [kind |-> "none"]
    /\ retry_pc = "idle"

\* the category index is not followed
RegistryIdle ==
    /\ _categories = <<>>
    /\ reg_log = <<>>
    /\ last_query = [op |-> "none"]

\* _extract_estimate_link_from_result has not been called
LinkIdle ==
    /\ link_result = <<>>
    /\ link_returned = [kind |-> "not called"]

\* aws_config.py as imported: no client cached, credentials not validated
NoClient == [id |-> 0]

ClientIdle ==
    /\ _client = NoClient
    /\ _credentials_validated = FALSE
    /\ client_log = <<>>
    /\ generate_call = [kind |-> "none"]

AuxIdle == LimiterIdle /\ RetryIdle /\ RegistryIdle /\ LinkIdle /\ ClientIdle

Init ==
    /\ _services = RegisteredServices
    /\ OrchIdle
    /\ PlanIdle
    /\ CEWInit
    /\ AuxIdle

Next ==
    \/ RunEstimation
    \/ plan_workflow
    \/ initialize_browser
    \/ process_single_service
    \/ finalize_estimate
    \/ handle_error
    \/ run_estimation_return
    \/ RunTimeoutElapses
    \/ CEW_RunEstimation
    \/ parse_user_input
    \/ validate_configuration
    \/ navigate_to_calculator
    \/ prepare_services_queue
    \/ add_single_service
    \/ check_more_services
    \/ generate_estimate_links
    \/ format_final_result
    \/ cew_handle_error
    \/ cew_run_estimation_return

Spec == Init /\ [][Next]_vars

\* the nodes of the ServiceOrchestrator graph and the return of the run
OrchStep ==
    \/ plan_workflow
    \/ initialize_browser
    \/ process_single_service
    \/ finalize_estimate
    \/ handle_error
    \/ run_estimation_return

\* Spec with the graph driven on: workflow.ainvoke runs the node the last
\* edge led to (line 356), and every awaited executor run ends, by its
\* return, its exception or the timeout of asyncio.wait_for
SpecLive == Spec /\ WF_vars(OrchStep)

(***************************************************************************)
(* SpecPlan: get_workflow_plan over any registry content                   *)
(***************************************************************************)
\* the handlers a key may be registered with: one per category, and none
HandlerPool ==
    {VPCServiceHandler, EC2ServiceHandler, S3ServiceHandler, RDSServiceHandler,
     BedrockServiceHandler, DynamicServiceHandler("analytics"),
     DynamicServiceHandler("security"), DynamicServiceHandler("other"), NoHandler}

\* the keys of the planner's requests
PlanKeys == {"vpc", "ec2", "s3", "rds"}

\* a list of at most MaxReq distinct keys
PlanRequests ==
    UNION {{r \in [1..n -> PlanKeys] : NoDuplicates(r)} : n \in 0..MaxReq}

InitPlan ==
    /\ _services \in [Keys -> HandlerPool]
    /\ _services["unknown_service"] = NoHandler
    /\ OrchIdle
    /\ plan_services \in PlanRequests
    /\ plan_out = EmptyPlan
    /\ plan_out2 = EmptyPlan
    /\ CEWInit
    /\ AuxIdle

\* one call get_workflow_plan(plan_services)
PlanCall ==
    /\ plan_out = EmptyPlan
    /\ plan_out' = get_workflow_plan(plan_services)
    /\ UNCHANGED <<_services, aux_vars, orch_vars, plan_services, plan_out2, cew_vars>>

\* a second call with the same argument, the registry untouched in between
PlanCallAgain ==
    /\ plan_out # EmptyPlan
    /\ plan_out2 = EmptyPlan
    /\ plan_out2' = get_workflow_plan(plan_services)
    /\ UNCHANGED <<_services, aux_vars, orch_vars, plan_services, plan_out, cew_vars>>

NextPlan == PlanCall \/ PlanCallAgain

SpecPlan == InitPlan /\ [][NextPlan]_vars

(***************************************************************************)
(* BedrockRateLimiter (utils/rate_limiter.py)                              *)
(*                                                                         *)
(* Time is in whole seconds.  SpecLimiter has one caller make its calls    *)
(* one after the other; each call is one step.                             *)
(***************************************************************************)
\* the window length of lines 34 and 40
Window == 60

\* the requests_per_minute a limiter may be constructed with
Caps == {1, 2, 3}

\* time between the return of one call and the arrival of the next
Gaps == {0, 20, 60}

\* by how much a time.sleep may exceed what was asked
Overshoots == {0, 1}

\* line 34
ResetDue(current_time, mstart) == current_time - mstart >= Window

AtCap_mut_above(count, cap) == count > cap

\* line 39
AtCap(count, cap) == count >= cap

\* line 40
WaitTime(current_time, mstart) == Window - (current_time - mstart)

MinDelay_mut_none(cap) == 0

\* line 49
MinDelay(cap) == Window \div cap

DelaySleep_mut_never(current_time, last, cap) == 0

\* lines 48-53: how long the call sleeps for the minimum delay
DelaySleep(current_time, last, cap) ==
    IF current_time - last < MinDelay(cap)
    THEN MinDelay(cap) - (current_time - last) ELSE 0

\* BedrockRateLimiter.__init__ at a clock reading of Window seconds or more
\* (time.time() counts from 1970, last_request_time starts at 0)
InitLimiter ==
    /\ _services = RegisteredServices
    /\ OrchIdle
    /\ PlanIdle
    /\ CEWInit
    /\ RetryIdle
    /\ RegistryIdle
    /\ LinkIdle
    /\ ClientIdle
    /\ now = Window
    /\ requests_per_minute \in Caps
    /\ request_count = 0
    /\ minute_start = now
    /\ last_request_time = 0
    /\ call_log = <<>>
    /\ t_pc = [t \in Threads |-> "idle"]
    /\ t_current_time = [t \in Threads |-> 0]
    /\ t_wake = [t \in Threads |-> 0]

\* one whole call of wait_if_needed, arriving gap seconds after the last
\* one returned: what it does to the limiter
WaitCall(gaps) ==
    /\ Len(call_log) < MaxCalls
    /\ \E gap \in gaps, over1 \in Overshoots, over2 \in Overshoots :
          LET current_time == now + gap
              reset == ResetDue(current_time, minute_start)
              count1 == IF reset THEN 0 ELSE request_count
              mstart1 == IF reset THEN current_time ELSE minute_start
              wait_time == WaitTime(current_time, mstart1)
              blocked == AtCap(count1, requests_per_minute) /\ wait_time > 0
              sleep1 == IF blocked THEN wait_time + over1 ELSE 0
              count2 == IF blocked THEN 0 ELSE count1
              mstart2 == IF blocked THEN current_time + sleep1 ELSE mstart1
              delay == DelaySleep(current_time, last_request_time, requests_per_minute)
              sleep2 == IF delay > 0 THEN delay + over2 ELSE 0
              finished == current_time + sleep1 + sleep2
          IN  /\ (~blocked => over1 = 0)
              /\ (delay = 0 => over2 = 0)
              /\ request_count' = count2 + 1
              /\ minute_start' = mstart2
              /\ last_request_time' = finished
              /\ now' = finished
              /\ call_log' = Append(call_log,
                                    [arrived |-> current_time,
                                     count_before |-> request_count,
                                     mstart_before |-> minute_start,
                                     woke |-> current_time + sleep1,
                                     slept |-> sleep1 + sleep2,
                                     proceeded |-> finished,
                                     count_after |-> count2 + 1])
    /\ UNCHANGED <<requests_per_minute, t_pc, t_current_time, t_wake>>

wait_if_needed ==
    /\ WaitCall(Gaps)
    /\ UNCHANGED <<_services, orch_vars, plan_vars, cew_vars, retry_vars, registry_vars>>

NextLimiter == wait_if_needed

SpecLimiter == InitLimiter /\ [][NextLimiter]_vars

(***************************************************************************)
(* SpecLimiterMT: the threads of Threads call wait_if_needed on one        *)
(* limiter.  The method takes no lock, so a thread may be preempted        *)
(* between any two statements and while it sleeps; each step below is one  *)
(* statement of one thread.                                                *)
(***************************************************************************)
Max(a, b) == IF a >= b THEN a ELSE b

\* calls entered so far
CallsEntered == Len(call_log) + Cardinality({t \in Threads : t_pc[t] # "idle"})

\* line 31
mt_enter(t) ==
    /\ t_pc[t] = "idle"
    /\ CallsEntered < MaxThreadCalls
    /\ \E gap \in Gaps : now' = now + gap
    /\ t_current_time' = [t_current_time EXCEPT ![t] = now']
    /\ t_pc' = [t_pc EXCEPT ![t] = "line34"]
    /\ UNCHANGED <<_services, orch_vars, plan_vars, cew_vars, retry_vars, registry_vars, requests_per_minute,
                   request_count, minute_start, last_request_time, call_log, t_wake>>

\* lines 34-36
mt_reset(t) ==
    /\ t_pc[t] = "line34"
    /\ IF ResetDue(t_current_time[t], minute_start)
       THEN /\ request_count' = 0
            /\ minute_start' = t_current_time[t]
       ELSE UNCHANGED <<request_count, minute_start>>
    /\ t_pc' = [t_pc EXCEPT ![t] = "line39"]
    /\ UNCHANGED <<_services, orch_vars, plan_vars, cew_vars, retry_vars, registry_vars, now, requests_per_minute,
                   last_request_time, call_log, t_current_time, t_wake>>

\* lines 39-43: the test of the cap, and the start of the sleep
mt_check(t) ==
    /\ t_pc[t] = "line39"
    /\ LET wait_time == WaitTime(t_current_time[t], minute_start)
       IN  IF AtCap(request_count, requests_per_minute) /\ wait_time > 0
           THEN /\ t_wake' = [t_wake EXCEPT ![t] = now + wait_time]
                /\ t_pc' = [t_pc EXCEPT ![t] = "line43"]
           ELSE /\ t_pc' = [t_pc EXCEPT ![t] = "line48"]
                /\ UNCHANGED t_wake
    /\ UNCHANGED <<_services, orch_vars, plan_vars, cew_vars, retry_vars, registry_vars, now, requests_per_minute,
                   request_count, minute_start, last_request_time, call_log,
                   t_current_time>>

\* lines 43-45: the sleep ends, the counter and the window start are reset
mt_wake_window(t) ==
    /\ t_pc[t] = "line43"
    /\ now' = Max(now, t_wake[t])
    /\ request_count' = 0
    /\ minute_start' = now'
    /\ t_pc' = [t_pc EXCEPT ![t] = "line48"]
    /\ UNCHANGED <<_services, orch_vars, plan_vars, cew_vars, retry_vars, registry_vars, requests_per_minute,
                   last_request_time, call_log, t_current_time, t_wake>>

\* lines 48-53: the minimum delay, and the start of its sleep
mt_delay(t) ==
    /\ t_pc[t] = "line48"
    /\ LET delay == DelaySleep(t_current_time[t], last_request_time, requests_per_minute)
       IN  IF delay > 0
           THEN /\ t_wake' = [t_wake EXCEPT ![t] = now + delay]
                /\ t_pc' = [t_pc EXCEPT ![t] = "line53"]
           ELSE /\ t_pc' = [t_pc EXCEPT ![t] = "line55"]
                /\ UNCHANGED t_wake
    /\ UNCHANGED <<_services, orch_vars, plan_vars, cew_vars, retry_vars, registry_vars, now, requests_per_minute,
                   request_count, minute_start, last_request_time, call_log,
                   t_current_time>>

\* line 53: the sleep ends
mt_wake_delay(t) ==
    /\ t_pc[t] = "line53"
    /\ now' = Max(now, t_wake[t])
    /\ t_pc' = [t_pc EXCEPT ![t] = "line55"]
    /\ UNCHANGED <<_services, orch_vars, plan_vars, cew_vars, retry_vars, registry_vars, requests_per_minute,
                   request_count, minute_start, last_request_time, call_log,
                   t_current_time, t_wake>>

\* line 55
mt_stamp(t) ==
    /\ t_pc[t] = "line55"
    /\ last_request_time' = now
    /\ t_pc' = [t_pc EXCEPT ![t] = "line56"]
    /\ UNCHANGED <<_services, orch_vars, plan_vars, cew_vars, retry_vars, registry_vars, now, requests_per_minute,
                   request_count, minute_start, call_log, t_current_time, t_wake>>

\* line 56, and the return
mt_count(t) ==
    /\ t_pc[t] = "line56"
    /\ request_count' = request_count + 1
    /\ call_log' = Append(call_log, [thread |-> t,
                                     proceeded |-> now,
                                     count_after |-> request_count + 1])
    /\ t_pc' = [t_pc EXCEPT ![t] = "idle"]
    /\ UNCHANGED <<_services, orch_vars, plan_vars, cew_vars, retry_vars, registry_vars, now, requests_per_minute,
                   minute_start, last_request_time, t_current_time, t_wake>>

NextLimiterMT ==
    \/ \E t \in Threads : mt_enter(t)
    \/ \E t \in Threads : mt_reset(t)
    \/ \E t \in Threads : mt_check(t)
    \/ \E t \in Threads : mt_wake_window(t)
    \/ \E t \in Threads : mt_delay(t)
    \/ \E t \in Threads : mt_wake_delay(t)
    \/ \E t \in Threads : mt_stamp(t)
    \/ \E t \in Threads : mt_count(t)

SpecLimiterMT == InitLimiter /\ [][NextLimiterMT]_vars

(***************************************************************************)
(* with_retry_and_backoff (utils/rate_limiter.py): one call of wrapper     *)
(***************************************************************************)
\* what one call of func can do: return, raise ClientError with a throttling
\* code, raise ClientError with another code, raise another Exception, raise
\* a TypeError or ValueError (an Exception as well)
FuncOutcomes == {"ok", "throttle", "client_error", "error", "programming_error"}

\* random.uniform(1, 5), at its ends
Jitters == {1, 5}

\* the base_delay a call may be wrapped with
BaseDelays == {1, 2}

RECURSIVE Pow(_, _)
Pow(b, e) == IF e = 0 THEN 1 ELSE b * Pow(b, e - 1)

Retried_mut_short(outcome, n, retries) ==
    outcome \in {"throttle", "error", "programming_error"} /\ n + 1 < retries

Retried_mut_all(outcome, n, retries) == outcome # "ok" /\ n < retries

\* lines 75-76 and 89-91: the failure is slept on and the loop continues
Retried(outcome, n, retries) ==
    outcome \in {"throttle", "error", "programming_error"} /\ n < retries

BackoffDelay_mut_same(outcome, n, base, jitter) == base * Pow(2, n) + jitter

\* lines 78 and 92
BackoffDelay(outcome, n, base, jitter) ==
    IF outcome = "throttle" THEN base * Pow(3, n) + jitter ELSE base * Pow(2, n)

Raised_mut_first(log) == [kind |-> "raised", error_of |-> 1, error |-> log[1]]

\* lines 84, 87, 97, 101: the exception of the attempt just made is raised
Raised(log) == [kind |-> "raised", error_of |-> Len(log), error |-> log[Len(log)]]

\* line 69
Returned(log) == [kind |-> "returned", value_of |-> Len(log)]

InitRetry ==
    /\ _services = RegisteredServices
    /\ OrchIdle
    /\ PlanIdle
    /\ CEWInit
    /\ LimiterIdle
    /\ RegistryIdle
    /\ LinkIdle
    /\ ClientIdle
    /\ max_retries \in 0..MaxRetries
    /\ base_delay \in BaseDelays
    /\ attempt = 0
    /\ attempt_log = <<>>
    /\ sleep_log = <<>>
    /\ retry_result = [kind |-> "none"]
    /\ retry_pc = "running"

\* one pass of the loop of wrapper (lines 67-97); when the loop runs out,
\* lines 100-101 raise last_exception
RetryPass(at) ==
    /\ retry_pc = at
    /\ attempt <= max_retries
    /\ \E outcome \in FuncOutcomes, jitter \in Jitters :
          LET log == Append(attempt_log, outcome)
          IN  /\ (outcome # "throttle" => jitter = 1)
              /\ attempt_log' = log
              /\ IF outcome = "ok"
                 THEN /\ retry_result' = Returned(log)
                      /\ retry_pc' = "done"
                      /\ UNCHANGED <<attempt, sleep_log>>
                 ELSE IF Retried(outcome, attempt, max_retries)
                 THEN /\ sleep_log' = Append(sleep_log,
                                             [after |-> attempt,
                                              delay |-> BackoffDelay(outcome, attempt,
                                                                     base_delay, jitter)])
                      /\ attempt' = attempt + 1
                      /\ IF attempt + 1 <= max_retries
                         THEN /\ retry_pc' = "running"
                              /\ UNCHANGED retry_result
                         ELSE /\ retry_pc' = "done"
                              /\ retry_result' = Raised(log)
                 ELSE /\ retry_result' = Raised(log)
                      /\ retry_pc' = "done"
                      /\ UNCHANGED <<attempt, sleep_log>>
    /\ UNCHANGED <<max_retries, base_delay>>

retry_attempt ==
    /\ RetryPass("running")
    /\ UNCHANGED <<_services, orch_vars, plan_vars, cew_vars, limiter_vars,
                   registry_vars>>

NextRetry == retry_attempt

SpecRetry == InitRetry /\ [][NextRetry]_vars

(***************************************************************************)
(* BedrockConfig.create_bedrock_client: the wrapped _generate              *)
(***************************************************************************)
\* line 71: the decorator's base_delay
GenerateBaseDelay == 2

\* one logical call of the wrapped _generate on a limiter of any cap
InitGenerate ==
    /\ _services = RegisteredServices
    /\ OrchIdle
    /\ PlanIdle
    /\ CEWInit
    /\ RegistryIdle
    /\ LinkIdle
    /\ ClientIdle
    /\ now = Window
    /\ requests_per_minute \in Caps
    /\ request_count = 0
    /\ minute_start = now
    /\ last_request_time = 0
    /\ call_log = <<>>
    /\ t_pc = [t \in Threads |-> "idle"]
    /\ t_current_time = [t \in Threads |-> 0]
    /\ t_wake = [t \in Threads |-> 0]
    /\ max_retries \in 0..MaxRetries
    /\ base_delay = GenerateBaseDelay
    /\ attempt = 0
    /\ attempt_log = <<>>
    /\ sleep_log = <<>>
    /\ retry_result = [kind |-> "none"]
    /\ retry_pc = "running"

\* the time between the return of one attempt's wait_if_needed and the next
\* attempt's call of it: the wrapper's sleep (lines 80 and 94)
SleptBefore == IF sleep_log = <<>> THEN 0 ELSE sleep_log[Len(sleep_log)].delay

generate_wait_mut_once ==
    /\ retry_pc = "running"
    /\ attempt <= max_retries
    /\ IF attempt = 0 THEN WaitCall({SleptBefore}) ELSE UNCHANGED limiter_vars
    /\ retry_pc' = "waited"
    /\ UNCHANGED <<max_retries, base_delay, attempt, attempt_log, sleep_log,
                   retry_result>>
    /\ UNCHANGED <<_services, orch_vars, plan_vars, cew_vars, registry_vars>>

\* an attempt of the wrapper enters rate_limited_generate (line 72), whose
\* first statement is bedrock_rate_limiter.wait_if_needed() (line 73)
generate_wait ==
    /\ retry_pc = "running"
    /\ attempt <= max_retries
    /\ WaitCall({SleptBefore})
    /\ retry_pc' = "waited"
    /\ UNCHANGED <<max_retries, base_delay, attempt, attempt_log, sleep_log,
                   retry_result>>
    /\ UNCHANGED <<_services, orch_vars, plan_vars, cew_vars, registry_vars>>

\* line 74: original_generate is invoked, and the wrapper deals with what it
\* did
generate_invoke ==
    /\ RetryPass("waited")
    /\ UNCHANGED <<_services, orch_vars, plan_vars, cew_vars, limiter_vars,
                   registry_vars>>

NextGenerate == generate_wait \/ generate_invoke

SpecGenerate == InitGenerate /\ [][NextGenerate]_vars

(***************************************************************************)
(* SpecRegistry: register_service calls on a fresh ServiceRegistry         *)
(***************************************************************************)
\* the keys registered
RegKeys == {"vpc", "ec2", "rds"}

\* the handlers they are registered with: two of one category among them
RegHandlers ==
    {VPCServiceHandler, EC2ServiceHandler, DynamicServiceHandler("networking"),
     DynamicServiceHandler("other")}

StoreHandler_mut_keepfirst(services, service_type, handler) ==
    IF services[service_type] # NoHandler THEN services
    ELSE [services EXCEPT ![service_type] = handler]

\* line 70
StoreHandler(services, service_type, handler) ==
    [services EXCEPT ![service_type] = handler]

\* lines 73-76
IndexCategory(categories, category, service_type) ==
    [c \in DOMAIN categories \cup {category} |->
        IF c = category
        THEN Append(IF c \in DOMAIN categories THEN categories[c] ELSE <<>>, service_type)
        ELSE categories[c]]

\* ServiceRegistry.__init__
\* line 78: the levels of the log records one register_service call emits
RegistrationLog == <<"info">>

\* lines 88-90
get_services_by_category(category) ==
    IF category \in DOMAIN _categories THEN _categories[category] ELSE <<>>

\* lines 92-94
get_categories == DOMAIN _categories

InitRegistry ==
    /\ _services = [k \in Keys |-> NoHandler]
    /\ OrchIdle
    /\ PlanIdle
    /\ CEWInit
    /\ LimiterIdle
    /\ RetryIdle
    /\ LinkIdle
    /\ ClientIdle
    /\ _categories = <<>>
    /\ reg_log = <<>>
    /\ last_query = [op |-> "none"]

register_service ==
    /\ Len(reg_log) < MaxRegs
    /\ \E service_type \in RegKeys, handler \in RegHandlers :
          /\ _services' = StoreHandler(_services, service_type, handler)
          /\ _categories' = IndexCategory(_categories, get_service_category(handler),
                                          service_type)
          /\ reg_log' = Append(reg_log, [service_type |-> service_type,
                                         handler |-> handler,
                                         logged |-> RegistrationLog])
    /\ UNCHANGED <<orch_vars, plan_vars, cew_vars, limiter_vars, retry_vars,
                   last_query>>

\* the query calls made on the registry
RegistryQueries ==
    [op : {"get_handler", "validate_service_config", "get_service_instructions"},
     arg : {"vpc", "unknown_service"}]
        \cup {[op |-> "get_all_services", arg |-> ""],
              [op |-> "get_categories", arg |-> ""],
              [op |-> "get_workflow_plan", arg |-> <<"ec2", "vpc">>]}

\* list(self._services.keys()): the keys in the order of their first
\* registration
RECURSIVE FirstRegistered(_)
FirstRegistered(log) ==
    IF log = <<>> THEN <<>>
    ELSE LET before == FirstRegistered(SubSeq(log, 1, Len(log) - 1))
             key == log[Len(log)].service_type
         IN  IF Contains(before, key) THEN before ELSE Append(before, key)

get_all_services == FirstRegistered(reg_log)

\* lines 104-110: the handler's instructions, or ValueError
get_service_instructions(service_type) ==
    IF get_handler(service_type) = NoHandler
    THEN [raised |-> "ValueError"]
    ELSE [instructions_of |-> get_handler(service_type).name]

\* what a query call returns
QueryAnswer(q) ==
    CASE q.op = "get_handler" -> get_handler(q.arg)
      [] q.op = "get_all_services" -> get_all_services
      [] q.op = "get_categories" -> get_categories
      [] q.op = "validate_service_config" -> validate_service_config(q.arg, {})
      [] q.op = "get_service_instructions" -> get_service_instructions(q.arg)
      [] q.op = "get_workflow_plan" -> get_workflow_plan(q.arg)

IndexAfterQuery_mut_grouped(q, categories) ==
    IF q.op = "get_workflow_plan"
    THEN [c \in DOMAIN categories \cup DOMAIN category_groups(q.arg) |->
              IF c \in DOMAIN category_groups(q.arg)
              THEN category_groups(q.arg)[c] ELSE categories[c]]
    ELSE categories

\* self._categories after a query call: lines 80-150 hold no assignment to
\* it, and the planner groups into the dict of its own plan (lines 114-129)
IndexAfterQuery(q, categories) == categories

\* self._services after a query call: every access is .get() or .keys()
CatalogAfterQuery(q, services) == services

\* one call of get_handler, get_all_services, get_categories,
\* validate_service_config, get_service_instructions or get_workflow_plan
registry_query ==
    /\ \E q \in RegistryQueries :
          /\ last_query' = [op |-> q.op, arg |-> q.arg, answer |-> QueryAnswer(q)]
          /\ _services' = CatalogAfterQuery(q, _services)
          /\ _categories' = IndexAfterQuery(q, _categories)
    /\ UNCHANGED <<orch_vars, plan_vars, cew_vars, limiter_vars, retry_vars, reg_log>>

NextRegistry == register_service \/ registry_query

SpecRegistry == InitRegistry /\ [][NextRegistry]_vars

(***************************************************************************)
(* Properties of the orchestrator run (Spec)                               *)
(***************************************************************************)
(* ServiceOrchestrator: run_estimation called again and again              *)
(***************************************************************************)
\* the requests of the repeated runs: one or two of vpc and ec2, each with
\* a complete configuration
RepeatRequests ==
    {r \in Requests :
         /\ Len(r) \in 1..2
         /\ \A i \in 1..Len(r) :
                /\ r[i].key \in {"vpc", "ec2"}
                /\ r[i].config = Range(RegisteredServices[r[i].key].required)}

initial_list_mut_shared(previous) == previous

\* lines 347-348: completed_services=[] and failed_services=[] are list
\* displays, evaluated anew by every call
initial_list(previous) == <<>>

\* what a finished run leaves with its caller: the report and the lists of
\* its final state
RunRecord ==
    [result |-> result, completed_services |-> completed_services,
     failed_services |-> failed_services, executed |-> KeysOf(exec_log)]

\* run_estimation, lines 344-356, called on a new orchestrator or after an
\* earlier call has returned
RunEstimationAgain ==
    /\ cew_pc = "idle"
    /\ \/ pc = "idle"
       \/ pc = "returned" /\ Len(earlier_runs) + 1 < MaxRuns
    /\ earlier_runs' = IF pc = "returned" THEN Append(earlier_runs, RunRecord)
                       ELSE earlier_runs
    /\ \E r \in RepeatRequests : services_config' = r
    /\ workflow_plan' = EmptyPlan
    /\ current_service_index' = 0
    /\ completed_services' = initial_list(completed_services)
    /\ failed_services' = initial_list(failed_services)
    /\ browser_session' = "None"
    /\ estimate_links' = {}
    /\ error_message' = NoError
    /\ result' = NoResult
    /\ exec_log' = <<>>
    /\ pc' = "plan_workflow"
    /\ UNCHANGED <<_services, limiter_vars, retry_vars, registry_vars, deadline_vars,
                   link_vars, client_vars, plan_vars, cew_vars>>

NextRuns ==
    \/ RunEstimationAgain
    \/ plan_workflow
    \/ initialize_browser
    \/ process_single_service
    \/ finalize_estimate
    \/ handle_error
    \/ run_estimation_return

SpecRuns == Init /\ [][NextRuns]_vars

(***************************************************************************)
(* UnifiedAWSBrowserAgent._extract_estimate_link_from_result               *)
(***************************************************************************)
\* longest agent result, in pieces
MaxPieces == 3

\* estimate ids ([a-f0-9]+)
EstimateIds == {"aa11", "bb22"}

\* The pieces an agent result is made of, separated by white space:
\*   full  https://calculator.aws/#/estimate?id=<id>
\*   host  calculator.aws/#/estimate?id=<id>
\*   bare  estimate?id=<id>
\*   page  another https://calculator.aws link, with no estimate id
\*   text  anything else
Pieces ==
    [form : {"full", "host", "bare"}, id : EstimateIds]
        \cup {[form |-> "page", id |-> ""], [form |-> "text", id |-> ""]}

AgentResults == UNION {[1..n -> Pieces] : n \in 0..MaxPieces}

\* the forms of piece in which each pattern of the list at lines 140-144
\* finds a match: a longer form holds the shorter ones as substrings
PatternForms ==
    <<{"full"}, {"full", "host"}, {"full", "host", "bare"}>>

\* re.findall(pattern, result_str): the ids captured, in text order
FindAll(forms, res) ==
    LET hits == SelectSeq(res, LAMBDA p : p.form \in forms)
    IN  [i \in 1..Len(hits) |-> hits[i].id]

\* re.findall(r'https://calculator\.aws[^\s\)]+', result_str)
CalculatorLinks(res) == SelectSeq(res, LAMBDA p : p.form \in {"full", "page"})

\* f"https://calculator.aws/#/estimate?id={estimate_id}"
FullLink(estimate_id) == [kind |-> "link", form |-> "full", id |-> estimate_id]

\* matches[-1]
LastOf(matches) == matches[Len(matches)]

\* lines 131-163: the first pattern of the list that finds anything decides
ExtractEstimateLink(res) ==
    IF res = <<>> THEN [kind |-> "None"]
    ELSE IF FindAll(PatternForms[1], res) # <<>>
         THEN FullLink(LastOf(FindAll(PatternForms[1], res)))
    ELSE IF FindAll(PatternForms[2], res) # <<>>
         THEN FullLink(LastOf(FindAll(PatternForms[2], res)))
    ELSE IF FindAll(PatternForms[3], res) # <<>>
         THEN FullLink(LastOf(FindAll(PatternForms[3], res)))
    ELSE IF CalculatorLinks(res) # <<>>
         THEN [kind |-> "link", form |-> LastOf(CalculatorLinks(res)).form,
               id |-> LastOf(CalculatorLinks(res)).id]
    ELSE [kind |-> "None"]

InitLink ==
    /\ _services = RegisteredServices
    /\ OrchIdle
    /\ PlanIdle
    /\ CEWInit
    /\ LimiterIdle
    /\ RetryIdle
    /\ RegistryIdle
    /\ ClientIdle
    /\ link_result \in AgentResults
    /\ link_returned = [kind |-> "not called"]

_extract_estimate_link_from_result ==
    /\ link_returned.kind = "not called"
    /\ link_returned' = ExtractEstimateLink(link_result)
    /\ UNCHANGED <<_services, pc, services_config, workflow_plan,
                   current_service_index, completed_services, failed_services,
                   browser_session, estimate_links, error_message, result,
                   exec_log, deadline_vars, runs_vars, plan_vars, cew_vars, limiter_vars,
                   retry_vars, registry_vars, link_result, client_vars>>

NextLink == _extract_estimate_link_from_result

SpecLink == InitLink /\ [][NextLink]_vars

(***************************************************************************)
(* aws_config.py: the cached Bedrock client and its wrapped _generate       *)
(***************************************************************************)
\* max_retries of the decorator put on rate_limited_generate
GenerateMaxRetries == 3

\* temperature (in tenths) and max_tokens a caller may ask for
Temperatures == {1, 7}

TokenLimits == {1024, 4096}

\* ChatBedrock(...) and the wrapping either go through or raise
CreateOutcomes == {"created", "raised"}

\* sts.get_caller_identity() answers or raises
CredentialOutcomes == {TRUE, FALSE}

\* lines 68-76: _generate becomes rate_limited_generate around the _generate
\* the client had; wraps counts the layers around ChatBedrock._generate
WrapGenerate(client) == [client EXCEPT !.wraps = @ + 1]

\* lines 51-64 and 68-76: a new client, wrapped
NewClient(id) ==
    WrapGenerate([id |-> id, wraps |-> 0, temperature |-> 1, max_tokens |-> 1024])

ReusedClient_mut_rewrap(client) == WrapGenerate(client)

\* lines 46-48: the cached client is returned as it is
ReusedClient(client) == client

\* one call of a _generate under wraps layers. Layer 0 is ChatBedrock's own
\* _generate, one backend invocation; a layer above it is the wrapper of
\* with_retry_and_backoff around wait_if_needed and the layer below.
RECURSIVE GenerateRuns(_)

RECURSIVE WrappedRuns(_, _)

\* the loop of the wrapper from attempt n on
WrappedRuns(wraps, n) ==
    LET later == WrappedRuns(wraps, n + 1)
    IN  UNION {IF Retried(r.outcome, n, GenerateMaxRetries)
               THEN {[invocations |-> r.invocations + l.invocations,
                      waits |-> r.waits + 1 + l.waits,
                      outcome |-> l.outcome] : l \in later}
               ELSE {[invocations |-> r.invocations,
                      waits |-> r.waits + 1,
                      outcome |-> r.outcome]} : r \in GenerateRuns(wraps - 1)}

GenerateRuns(wraps) ==
    IF wraps = 0
    THEN {[invocations |-> 1, waits |-> 0, outcome |-> o] : o \in FuncOutcomes}
    ELSE WrappedRuns(wraps, 0)

\* entries of client_log that handed a client to the caller
Handed(log) == SelectSeq(log, LAMBDA e : e.returned # 0)

\* BedrockConfig.create_bedrock_client, lines 41-85, called on the singleton
create_bedrock_client ==
    /\ Len(client_log) < MaxClientCalls
    /\ \E outcome \in CreateOutcomes :
          LET client == IF _client # NoClient THEN ReusedClient(_client)
                        ELSE IF outcome = "created" THEN NewClient(Len(client_log) + 1)
                        ELSE NoClient
          IN  /\ (_client # NoClient => outcome = "created")
              /\ _client' = client
              /\ client_log' = Append(client_log, [op |-> "create_bedrock_client",
                                                   returned |-> client.id])
    /\ UNCHANGED <<_credentials_validated, generate_call>>
    /\ UNCHANGED <<_services, pc, services_config, workflow_plan,
                   current_service_index, completed_services, failed_services,
                   browser_session, estimate_links, error_message, result,
                   exec_log, deadline_vars, runs_vars, link_vars, plan_vars,
                   cew_vars, limiter_vars, retry_vars, registry_vars>>

\* get_bedrock_llm, lines 117-144
get_bedrock_llm ==
    /\ Len(client_log) < MaxClientCalls
    /\ \E temperature \in Temperatures, max_tokens \in TokenLimits,
          valid \in CredentialOutcomes, outcome \in CreateOutcomes :
          LET credentials == _credentials_validated \/ valid
              made == IF _client # NoClient THEN ReusedClient(_client)
                      ELSE IF outcome = "created" THEN NewClient(Len(client_log) + 1)
                      ELSE NoClient
              client == IF ~credentials THEN _client
                        ELSE IF made = NoClient THEN NoClient
                        ELSE [made EXCEPT !.temperature = temperature,
                                          !.max_tokens = max_tokens]
          IN  /\ (_credentials_validated => valid)
              /\ ((~credentials \/ _client # NoClient) => outcome = "created")
              /\ _credentials_validated' = credentials
              /\ _client' = client
              /\ client_log' = Append(client_log,
                                      [op |-> "get_bedrock_llm",
                                       returned |-> IF credentials THEN client.id ELSE 0])
    /\ UNCHANGED generate_call
    /\ UNCHANGED <<_services, pc, services_config, workflow_plan,
                   current_service_index, completed_services, failed_services,
                   browser_session, estimate_links, error_message, result,
                   exec_log, deadline_vars, runs_vars, link_vars, plan_vars,
                   cew_vars, limiter_vars, retry_vars, registry_vars>>

\* a caller that holds the client calls its _generate
client_generate ==
    /\ _client # NoClient
    /\ \E run \in GenerateRuns(_client.wraps) :
          generate_call' = [kind |-> "made",
                            requests |-> Len(Handed(client_log)),
                            invocations |-> run.invocations,
                            waits |-> run.waits,
                            outcome |-> run.outcome]
    /\ UNCHANGED <<_client, _credentials_validated, client_log>>
    /\ UNCHANGED <<_services, pc, services_config, workflow_plan,
                   current_service_index, completed_services, failed_services,
                   browser_session, estimate_links, error_message, result,
                   exec_log, deadline_vars, runs_vars, link_vars, plan_vars,
                   cew_vars, limiter_vars, retry_vars, registry_vars>>

NextClient == create_bedrock_client \/ get_bedrock_llm \/ client_generate

SpecClient == Init /\ [][NextClient]_vars

(***************************************************************************)
\* the run went through finalize_estimate (the state machine's Completed)
Completed ==
    \/ pc = "finalize_estimate"
    \/ pc \in {"END", "returned"} /\ error_message.kind \in {"", "Finalization failed"}

\* the service runs that raised or timed out
FailedRuns == {i \in 1..Len(exec_log) : exec_log[i].outcome \in {"raised", "timeout"}}

\* the same in CostEstimationWorkflow
CEWFailedRuns == {i \in 1..Len(add_log) : add_log[i].outcome \in {"raised", "timeout"}}

\* C1 in ServiceOrchestrator
OrchFailureIsolated ==
    \A i \in FailedRuns :
        LET B == exec_log[i].key
            order == workflow_plan.service_order
        IN  /\ Contains(failed_services, B)
            /\ ~Contains(completed_services, B)
            /\ error_message.kind \in {"", "Finalization failed"}
            /\ pc # "handle_error"
            /\ pc = "process_service" =>
                   /\ current_service_index = Len(exec_log)
                   /\ current_service_index < Len(order)
            /\ pc \in {"finalize_estimate", "END", "returned"} =>
                   \A j \in (IndexOf(order, B) + 1)..Len(order) :
                       Contains(KeysOf(exec_log), order[j])

\* C1 in CostEstimationWorkflow
CEWFailureIsolated ==
    \A i \in CEWFailedRuns :
        LET B == add_log[i].key
        IN  /\ Contains(cew_failed_services, B)
            /\ ~Contains(added_services, B)
            /\ cew_pc # "handle_error"
            /\ cew_pc \in {"add_single_service", "check_more_services"} =>
                   cew_index = Len(add_log)
            /\ cew_pc = "add_single_service" => cew_index < Len(services_to_add)
            /\ cew_pc \in {"generate_links", "format_result", "END", "returned"} =>
                   \A j \in (IndexOf(services_to_add, B) + 1)..Len(services_to_add) :
                       Contains(KeysOf(add_log), services_to_add[j])

\* C1: a service whose executor run raises or times out is put on the failed
\* list (and not on the completed one), the run never turns to the error path
\* because of it, the next step is the attempt of the key after it, and once
\* the loop is over every key ordered after it has had its executor run; in
\* ServiceOrchestrator and in CostEstimationWorkflow.
C1_FailureIsolated == OrchFailureIsolated /\ CEWFailureIsolated

\* a finished run in which a raise and a timeout were each followed by the
\* attempt of a later key
C1_Witness ==
    /\ pc = "returned"
    /\ Len(exec_log) = 3
    /\ exec_log[1].outcome = "raised"
    /\ exec_log[2].outcome = "timeout"
    /\ failed_services = <<exec_log[1].key, exec_log[2].key>>

\* the same in a finished CostEstimationWorkflow run
C1_WitnessCEW ==
    /\ cew_pc = "returned"
    /\ Len(add_log) = 3
    /\ add_log[1].outcome = "timeout"
    /\ add_log[2].outcome = "raised"
    /\ add_log[3].outcome = "returned"
    /\ final_result.services_failed = <<add_log[1].key, add_log[2].key>>

\* C2: once validation and the Agent construction have passed, the executor
\* runs made so far are exactly the first current_service_index keys of
\* service_order, in that order, one run per key; the run never leaves the
\* loop by the error path, and when it leaves it the runs are the whole
\* service_order.  In CostEstimationWorkflow, once the queue is prepared,
\* the same holds of the add_service_by_type calls and services_to_add.
C2_PlanOrderExactlyOnce ==
    /\ browser_session = "Agent" =>
           /\ Len(exec_log) = current_service_index
           /\ current_service_index <= Len(workflow_plan.service_order)
           /\ KeysOf(exec_log) = SubSeq(workflow_plan.service_order, 1, Len(exec_log))
           /\ pc # "handle_error"
           /\ pc \in {"finalize_estimate", "END", "returned"} =>
                  KeysOf(exec_log) = workflow_plan.service_order
    /\ cew_pc \in {"add_single_service", "check_more_services", "generate_links",
                   "format_result"} =>
           /\ Len(add_log) = cew_index
           /\ cew_index <= Len(services_to_add)
           /\ KeysOf(add_log) = SubSeq(services_to_add, 1, Len(add_log))
           /\ cew_pc \in {"generate_links", "format_result"} =>
                  KeysOf(add_log) = services_to_add

\* a finished three-service run whose plan order differs from the request
\* order and whose first service failed
C2_Witness ==
    /\ pc = "returned"
    /\ Len(exec_log) = 3
    /\ exec_log[1].outcome = "timeout"
    /\ workflow_plan.service_order # KeysOf(services_config)
    /\ KeysOf(exec_log) = workflow_plan.service_order

\* C3: when the run is Completed, completed_services and failed_services are
\* disjoint and duplicate-free, together hold exactly the keys of
\* service_order, each in plan order; the summary of a report that has one
\* gives their lengths, which add up to total_services.
C3_ListsPartitionPlan ==
    /\ Completed =>
          LET order == workflow_plan.service_order
          IN  /\ Range(completed_services) \cap Range(failed_services) = {}
              /\ NoDuplicates(completed_services)
              /\ NoDuplicates(failed_services)
              /\ Range(completed_services) \cup Range(failed_services) = Range(order)
              /\ Len(completed_services) + Len(failed_services) = Len(order)
              /\ InOrderOf(completed_services, order)
              /\ InOrderOf(failed_services, order)
              /\ Len(order) = Len(services_config)
    /\ (pc = "returned" /\ result.status = "success") =>
          /\ Completed
          /\ result.summary.successful = Len(completed_services)
          /\ result.summary.failed = Len(failed_services)
          /\ result.summary.successful + result.summary.failed
                 = result.summary.total_services

\* a report with a summary whose run had a success between two failures
C3_Witness ==
    /\ pc = "returned"
    /\ result.status = "success"
    /\ result.summary.successful = 1
    /\ result.summary.failed = 2
    /\ exec_log[2].outcome = "returned"

\* a report with a summary of a run in which every service failed
C3_WitnessAllFailed ==
    /\ pc = "returned"
    /\ result.status = "success"
    /\ result.summary.successful = 0
    /\ result.summary.failed = 3

\* C4: the report's status is partial exactly when at least one but not all
\* of the requested services succeeded, and success only when all did.
C4_PartialStatus ==
    pc = "returned" =>
        /\ result.status = "partial" <=>
               /\ Len(completed_services) >= 1
               /\ Len(completed_services) < Len(services_config)
        /\ result.status = "success" =>
               Len(completed_services) = Len(services_config)

\* C5: a run in which an executor run was made for a service never reports
\* status error.
C5_NoErrorAfterExecution ==
    (pc = "returned" /\ exec_log # <<>>) => result.status # "error"

\* C6: when validation reports an error, the Agent is never constructed, no
\* executor run is made, the completed and failed lists stay empty, the loop
\* is never left towards finalize_estimate, and the report has status error.
C6_ValidationBlocksExecution ==
    ValidationErrors(services_config) # <<>> =>
        /\ browser_session = "None"
        /\ exec_log = <<>>
        /\ completed_services = <<>>
        /\ failed_services = <<>>
        /\ pc # "finalize_estimate"
        /\ pc = "returned" => result.status = "error"

\* a rejected request that holds a valid ec2 entry next to an unknown key
C6_Witness ==
    /\ pc = "returned"
    /\ result.status = "error"
    /\ \E i \in 1..Len(services_config) :
          /\ services_config[i].key = "ec2"
          /\ validate_service_config("ec2", services_config[i].config) = <<>>
    /\ \E i \in 1..Len(services_config) : services_config[i].key = "unknown_service"

\* C7: the error of the report of a request that failed validation is the
\* validation message, carrying every validation error.
C7_ValidationDetailReported ==
    (pc = "returned" /\ ValidationErrors(services_config) # <<>>) =>
        /\ result.status = "error"
        /\ result.error.kind = "Configuration validation failed"
        /\ result.error.detail = ValidationErrors(services_config)

\* C8: a valid, non-empty request whose every service run returned is
\* reported with status success, services_added equal to service_order and
\* services_failed empty.
C8_AllSucceedReport ==
    ( /\ pc = "returned"
      /\ services_config # <<>>
      /\ ValidationErrors(services_config) = <<>>
      /\ Len(exec_log) = Len(services_config)
      /\ \A i \in 1..Len(exec_log) : exec_log[i].outcome = "returned" ) =>
        /\ result.status = "success"
        /\ result.services_added = service_order_of(KeysOf(services_config))
        /\ result.services_failed = <<>>

(***************************************************************************)
(* Properties of the planner (SpecPlan)                                    *)
(***************************************************************************)
PlanDone == plan_out # EmptyPlan

AllRegistered(services) == \A i \in 1..Len(services) : get_handler(services[i]) # NoHandler

\* C9: for distinct, registered keys service_order is a permutation of the
\* request: same length, no key twice, the same keys.
C9_OrderIsPermutation ==
    (PlanDone /\ NoDuplicates(plan_services) /\ AllRegistered(plan_services)) =>
        /\ Len(plan_out.service_order) = Len(plan_services)
        /\ NoDuplicates(plan_out.service_order)
        /\ Range(plan_out.service_order) = Range(plan_services)

\* a plan of three registered keys, two of one priority category and one of a
\* category outside the priority list
C9_Witness ==
    /\ PlanDone
    /\ plan_services = <<"rds", "vpc", "ec2">>
    /\ AllRegistered(plan_services)
    /\ get_service_category(get_handler("rds")) = "other"
    /\ get_service_category(get_handler("vpc")) = "storage"
    /\ get_service_category(get_handler("ec2")) = "storage"
    /\ plan_out.service_order = <<"vpc", "ec2", "rds">>

\* the priority list as the claim gives it
ClaimedPriority ==
    <<"networking", "compute", "storage", "database", "analytics", "ml", "security">>

\* the category of a key's handler ("" for a key that has none)
CategoryOf(k) == IF get_handler(k) = NoHandler THEN "" ELSE get_service_category(get_handler(k))

HasPriority(k) == Contains(ClaimedPriority, CategoryOf(k))

\* C10: in service_order a key of a higher-priority category precedes every
\* key of a lower-priority category, and a key whose category is outside the
\* list follows every key whose category is in it.
C10_CategoryPriority ==
    PlanDone =>
        LET order == plan_out.service_order
        IN  \A i, j \in 1..Len(order) :
                /\ ( /\ HasPriority(order[i]) /\ HasPriority(order[j])
                     /\ IndexOf(ClaimedPriority, CategoryOf(order[i]))
                            < IndexOf(ClaimedPriority, CategoryOf(order[j])) ) => i < j
                /\ ( /\ HasPriority(order[i])
                     /\ get_handler(order[j]) # NoHandler
                     /\ ~HasPriority(order[j]) ) => i < j

\* a plan that reverses the request: other, then security, then networking
C10_Witness ==
    /\ PlanDone
    /\ plan_services = <<"s3", "ec2", "vpc">>
    /\ CategoryOf("s3") = "other"
    /\ CategoryOf("ec2") = "security"
    /\ CategoryOf("vpc") = "networking"
    /\ plan_out.service_order = <<"vpc", "ec2", "s3">>

\* C11: two requested keys of the same category keep their request order in
\* service_order, and so do two keys whose categories are both outside the
\* priority list (or that have no handler at all).
C11_PlannerStable ==
    PlanDone =>
        LET order == plan_out.service_order
        IN  \A i, j \in 1..Len(plan_services) :
                LET a == plan_services[i]
                    b == plan_services[j]
                IN  ( /\ i < j
                      /\ \/ /\ get_handler(a) # NoHandler
                            /\ get_handler(b) # NoHandler
                            /\ CategoryOf(a) = CategoryOf(b)
                         \/ ~HasPriority(a) /\ ~HasPriority(b) )
                    => /\ Contains(order, a)
                       /\ Contains(order, b)
                       /\ IndexOf(order, a) < IndexOf(order, b)

\* a plan that moves the networking key to the front and keeps the two
\* compute keys in their request order
C11_Witness ==
    /\ PlanDone
    /\ plan_services = <<"ec2", "s3", "vpc">>
    /\ CategoryOf("ec2") = "compute"
    /\ CategoryOf("s3") = "compute"
    /\ CategoryOf("vpc") = "networking"
    /\ plan_out.service_order = <<"vpc", "ec2", "s3">>

C13_UnknownKeyFailsPlanning ==
    (PlanDone /\ ~AllRegistered(plan_services)) => ~HasKey(plan_out, "service_order")

(***************************************************************************)
(* Properties of bulk validation (Spec)                                    *)
(***************************************************************************)
\* what the claim has one entry of the request contribute
ClaimedErrors(entry) ==
    IF get_handler(entry.key) = NoHandler
    THEN << [service |-> entry.key, field |-> "", text |-> "Unknown service type"] >>
    ELSE validate_config(entry.key, get_handler(entry.key), entry.config)

\* C14: the errors plan_workflow has collected are the per-key results joined
\* in the request's order: one unknown-service error for an unregistered key,
\* the handler's own errors for a registered one, nothing for a valid one, and
\* every failing key is represented.
C14_BulkValidationCollects ==
    pc = "initialize_browser" =>
        LET n == Len(services_config)
            detail == error_message.detail
            before(i) == SumSeq([j \in 1..(i-1) |-> Len(ClaimedErrors(services_config[j]))])
        IN  /\ Len(detail) = before(n + 1)
            /\ \A i \in 1..n :
                   LET mine == ClaimedErrors(services_config[i])
                   IN  /\ SubSeq(detail, before(i) + 1, before(i) + Len(mine)) = mine
                       /\ get_handler(services_config[i].key) = NoHandler =>
                              /\ Len(mine) = 1
                              /\ mine[1].service = services_config[i].key
            /\ (detail # <<>>) = (error_message.kind = "Configuration validation failed")

\* a valid ec2 entry, then an unknown key, then an rds entry missing both of
\* its required fields: three errors, none of them ec2's
C14_Witness ==
    /\ pc = "initialize_browser"
    /\ KeysOf(services_config) = <<"ec2", "unknown_service", "rds">>
    /\ services_config[1].config = Range(EC2ServiceHandler.required)
    /\ services_config[3].config = {}
    /\ Len(error_message.detail) = 3
    /\ error_message.detail[1].service = "unknown_service"
    /\ error_message.detail[2].service = "rds"
    /\ error_message.detail[3].service = "rds"

(***************************************************************************)
(* Properties of the rate limiter (SpecLimiter)                            *)
(***************************************************************************)
\* the call of this log entry arrived with the counter at the cap, inside the
\* window then current
ArrivedAtCap(e) ==
    /\ e.count_before >= requests_per_minute
    /\ e.arrived - e.mstart_before < Window

\* C15: request_count never exceeds requests_per_minute; a call that arrives
\* with the counter at the cap inside the current window returns no earlier
\* than that window's end, and is counted as the first call of a new window.
C15_CapNeverExceeded ==
    /\ request_count <= requests_per_minute
    /\ \A i \in 1..Len(call_log) :
           LET e == call_log[i]
           IN  /\ e.count_after <= requests_per_minute
               /\ ArrivedAtCap(e) =>
                      /\ e.woke >= e.mstart_before + Window
                      /\ e.proceeded >= e.woke
                      /\ e.count_after = 1

\* a call that arrived at the cap in mid-window and was held to its end
C15_Witness ==
    \E i \in 1..Len(call_log) :
        /\ requests_per_minute = 2
        /\ ArrivedAtCap(call_log[i])
        /\ call_log[i].arrived > call_log[i].mstart_before
        /\ call_log[i].woke = call_log[i].mstart_before + Window
        /\ request_count = 1

\* calls i+1 .. j were each issued the moment the one before returned
BackToBack(i, j) == \A k \in (i+1)..j : call_log[k].arrived = call_log[k-1].proceeded

\* C16: of cap + 1 consecutive calls the last proceeds at least one window
\* after the first did, and when they are issued back to back at least one of
\* those after the first sleeps.
C16_BurstWaitsAWindow ==
    \A i \in 1..Len(call_log) :
        LET j == i + requests_per_minute
        IN  j <= Len(call_log) =>
                /\ call_log[j].proceeded - call_log[i].proceeded >= Window
                /\ BackToBack(i, j) => \E k \in (i+1)..j : call_log[k].slept > 0

\* three back-to-back calls on a limiter of cap 2, the first 20 s into the
\* window: the third arrives at the cap and sleeps until more than a window
\* after the first
C16_Witness ==
    /\ requests_per_minute = 2
    /\ Len(call_log) = 3
    /\ call_log[1].arrived = call_log[1].mstart_before + 20
    /\ BackToBack(1, 3)
    /\ ArrivedAtCap(call_log[3])
    /\ call_log[3].slept > 0
    /\ call_log[3].proceeded >= call_log[1].proceeded + Window

\* C24: of two consecutive calls the second returns at least
\* 60 / requests_per_minute seconds after the first returned, whether or not
\* the cap was reached.
C24_MinimumSpacing ==
    \A i \in 1..(Len(call_log) - 1) :
        (call_log[i+1].proceeded - call_log[i].proceeded) * requests_per_minute
            >= Window

\* a second call issued the moment the first returned, below the cap of 3,
\* that slept the 20 s spacing and nothing more
C24_Witness ==
    /\ requests_per_minute = 3
    /\ Len(call_log) >= 2
    /\ call_log[2].arrived = call_log[1].proceeded
    /\ ~ArrivedAtCap(call_log[2])
    /\ call_log[2].slept = 20
    /\ call_log[2].proceeded = call_log[1].proceeded + 20

\* the calls that proceeded in the window-long interval starting at time p
ProceededFrom(p) ==
    {i \in 1..Len(call_log) : call_log[i].proceeded >= p /\ call_log[i].proceeded < p + Window}

\* C17: with threads sharing the limiter, request_count stays within the cap
\* and no more than cap calls proceed within one window length.
C17_ConcurrentCallsWithinCap ==
    /\ request_count <= requests_per_minute
    /\ \A i \in 1..Len(call_log) :
           Cardinality(ProceededFrom(call_log[i].proceeded)) <= requests_per_minute

(***************************************************************************)
(* Properties of with_retry_and_backoff (SpecRetry)                        *)
(***************************************************************************)
\* the first n calls of func all failed with throttling
ThrottledFirst(n) ==
    /\ n <= Len(attempt_log)
    /\ \A i \in 1..n : attempt_log[i] = "throttle"

\* C18: after k <= max_retries throttled attempts the wrapper has raised
\* nothing and attempt k+1 is made; when that attempt succeeds its value is
\* what the wrapper returns.
C18_RetryTransparentOnSuccess ==
    \A k \in 0..max_retries :
        /\ (ThrottledFirst(k) /\ Len(attempt_log) = k) =>
               /\ retry_pc = "running"
               /\ retry_result.kind = "none"
        /\ (ThrottledFirst(k) /\ Len(attempt_log) = k + 1 /\ attempt_log[k + 1] = "ok") =>
               /\ retry_pc = "done"
               /\ retry_result = [kind |-> "returned", value_of |-> k + 1]

\* max_retries throttled attempts, then a success, returned to the caller
C18_Witness ==
    /\ max_retries = MaxRetries
    /\ ThrottledFirst(max_retries)
    /\ Len(attempt_log) = max_retries + 1
    /\ attempt_log[max_retries + 1] = "ok"
    /\ retry_result.kind = "returned"
    /\ Len(sleep_log) = max_retries

\* C19: func is called at most max_retries + 1 times; a finished wrapper has
\* returned or raised; when every attempt was throttled the raised error is
\* that of attempt max_retries + 1, the last one, and nothing is raised
\* before it.
C19_LastErrorAfterExhaustion ==
    /\ Len(attempt_log) <= max_retries + 1
    /\ retry_pc = "done" => retry_result.kind \in {"returned", "raised"}
    /\ (retry_pc = "done" /\ ThrottledFirst(Len(attempt_log))) =>
           /\ Len(attempt_log) = max_retries + 1
           /\ retry_result = [kind |-> "raised", error_of |-> max_retries + 1,
                              error |-> "throttle"]
    /\ (retry_result.kind = "raised" /\ retry_result.error = "throttle") =>
           /\ retry_result.error_of = max_retries + 1
           /\ Len(attempt_log) = max_retries + 1

\* every one of max_retries + 1 attempts throttled, and the last error raised
C19_Witness ==
    /\ max_retries = 2
    /\ Len(attempt_log) = 3
    /\ ThrottledFirst(3)
    /\ retry_result.kind = "raised"
    /\ retry_result.error_of = 3
    /\ Len(sleep_log) = 2

C26_ProgrammingErrorsPropagate ==
    \A i \in 1..Len(attempt_log) :
        attempt_log[i] = "programming_error" =>
            /\ Len(attempt_log) = i
            /\ Len(sleep_log) = i - 1
            /\ retry_result = [kind |-> "raised", error_of |-> i,
                               error |-> "programming_error"]

\* C27: the sleep after failed attempt k (from 0) is base_delay * 3^k + j with
\* 1 <= j <= 5 when the attempt was throttled and base_delay * 2^k when it
\* failed otherwise and is retried; attempts are slept on in turn and none
\* after attempt max_retries, the last; a throttling sleep is longer than the
\* other for the same k and base_delay.
C27_BackoffSchedule ==
    /\ Len(sleep_log) <= max_retries
    /\ Len(sleep_log) <= Len(attempt_log)
    /\ retry_result.kind = "raised" => Len(sleep_log) = Len(attempt_log) - 1
    /\ \A i \in 1..Len(sleep_log) :
           LET k == sleep_log[i].after
               d == sleep_log[i].delay
           IN  /\ k = i - 1
               /\ k < max_retries
               /\ attempt_log[i] # "ok"
               /\ IF attempt_log[i] = "throttle"
                  THEN /\ d - base_delay * Pow(3, k) \in 1..5
                       /\ d > base_delay * Pow(2, k)
                  ELSE d = base_delay * Pow(2, k)

\* base_delay 2: a throttled attempt 0 slept 2 + 5 s, a failed attempt 1
\* slept 2 * 2 s, a throttled attempt 2 slept 2 * 9 + 1 s, and the failed
\* attempt 3, the last, raised with no sleep
C27_Witness ==
    /\ max_retries = 3
    /\ base_delay = 2
    /\ attempt_log = <<"throttle", "error", "throttle", "error">>
    /\ sleep_log = <<[after |-> 0, delay |-> 7], [after |-> 1, delay |-> 4],
                     [after |-> 2, delay |-> 19]>>
    /\ retry_result.kind = "raised"

(***************************************************************************)
(* Properties of the registry (SpecRegistry)                               *)
(***************************************************************************)
\* the register_service calls made for key k
RegistrationsOf(k) == {i \in 1..Len(reg_log) : reg_log[i].service_type = k}

\* C20: get_handler(k) is the handler of the latest register_service call for
\* k, and the not-found value when there was none; so a registration changes
\* the answer for its own key only.
C20_LastRegistrationWins ==
    \A k \in Keys :
        IF RegistrationsOf(k) = {}
        THEN get_handler(k) = NoHandler
        ELSE LET last == CHOOSE i \in RegistrationsOf(k) :
                             \A j \in RegistrationsOf(k) : j <= i
             IN  get_handler(k) = reg_log[last].handler

\* a key registered, another key registered, the first key registered again
\* with another handler: the first key answers the third call's handler, the
\* other key its own
C20_Witness ==
    /\ Len(reg_log) = 3
    /\ reg_log[1].service_type = "vpc"
    /\ reg_log[2].service_type = "ec2"
    /\ reg_log[3].service_type = "vpc"
    /\ reg_log[1].handler # reg_log[3].handler
    /\ get_handler("vpc") = reg_log[3].handler
    /\ get_handler("ec2") = reg_log[2].handler
    /\ get_handler("rds") = NoHandler

\* register_service call i is for a key that was registered before it
ReRegistration(i) == \E j \in 1..(i - 1) : reg_log[j].service_type = reg_log[i].service_type

\* C28: a register_service call for a key that is already registered
\* replaces the handler and logs a warning; a call for a new key logs none.
C28_ReRegistrationWarns ==
    \A i \in 1..Len(reg_log) :
        /\ ReRegistration(i) <=> Contains(reg_log[i].logged, "warning")
        /\ (\A j \in (i + 1)..Len(reg_log) :
                reg_log[j].service_type # reg_log[i].service_type)
               => get_handler(reg_log[i].service_type) = reg_log[i].handler

\* the categories a handler can name
RegCategories == {get_service_category(h) : h \in RegHandlers}

\* C29: after any sequence of register_service calls the category index
\* agrees with the catalog: get_services_by_category(c) lists exactly the
\* keys whose current handler has category c, each once, and get_categories
\* names the categories that have a key.
C29_IndexAgreesWithCatalog ==
    \A c \in RegCategories \cup get_categories :
        LET listed == get_services_by_category(c)
            current == {k \in Keys : get_handler(k) # NoHandler
                                        /\ get_service_category(get_handler(k)) = c}
        IN  /\ Range(listed) = current
            /\ NoDuplicates(listed)

\* the positions of the request whose key has a handler of category c
HandledAt(c) ==
    {i \in 1..Len(plan_services) : get_handler(plan_services[i]) # NoHandler
                                      /\ CategoryOf(plan_services[i]) = c}

\* the n-th of a set of positions, counted from the front of the request
NthOf(positions, n) ==
    CHOOSE i \in positions : Cardinality({j \in positions : j <= i}) = n

\* what the handler of the key at position i adds to a total
TimeAt(i) ==
    IF get_handler(plan_services[i]) = NoHandler THEN 0
    ELSE get_timeout_seconds(get_handler(plan_services[i]))

ScoreAt(i) ==
    IF get_handler(plan_services[i]) = NoHandler THEN 0
    ELSE get_complexity_score(get_handler(plan_services[i]))

\* C30: category_groups of the plan holds exactly the requested keys that
\* have a handler, each under its handler's category and in request order;
\* a requested key without a handler is in no group and adds nothing to
\* total_estimated_time and complexity_score.
C30_GroupsHoldHandledKeys ==
    PlanDone =>
        LET groups == plan_out.category_groups
        IN  /\ DOMAIN groups =
                   {CategoryOf(plan_services[i]) :
                        i \in {j \in 1..Len(plan_services) :
                                   get_handler(plan_services[j]) # NoHandler}}
            /\ \A c \in DOMAIN groups :
                   /\ Len(groups[c]) = Cardinality(HandledAt(c))
                   /\ \A n \in 1..Len(groups[c]) :
                          groups[c][n] = plan_services[NthOf(HandledAt(c), n)]
            /\ \A i \in 1..Len(plan_services) :
                   get_handler(plan_services[i]) = NoHandler =>
                       \A c \in DOMAIN groups : ~Contains(groups[c], plan_services[i])
            /\ plan_out.total_estimated_time =
                   SumSeq([i \in 1..Len(plan_services) |-> TimeAt(i)])
            /\ plan_out.complexity_score =
                   SumSeq([i \in 1..Len(plan_services) |-> ScoreAt(i)])

\* a request whose second key has no handler, between two keys of one
\* category: the group holds the two in request order, the totals are theirs
C30_Witness ==
    /\ PlanDone
    /\ plan_services = <<"rds", "s3", "vpc">>
    /\ get_handler("s3") = NoHandler
    /\ get_handler("rds") = S3ServiceHandler
    /\ get_handler("vpc") = S3ServiceHandler
    /\ plan_out.category_groups = [storage |-> <<"rds", "vpc">>]
    /\ plan_out.total_estimated_time = 2 * get_timeout_seconds(S3ServiceHandler)

\* the positions of the request whose key has a handler: the descriptors the
\* sums of the plan include
IncludedAt == {i \in 1..Len(plan_services) : get_handler(plan_services[i]) # NoHandler}

\* C31: total_estimated_time and complexity_score are the sums of the
\* timeouts and complexity scores of the handlers included in the plan, and
\* average_complexity is complexity_score divided by the number of handlers
\* included in those sums, 0 when there is none.
C31_TotalsAndAverage ==
    PlanDone =>
        LET count == Cardinality(IncludedAt)
            avg == plan_out.average_complexity
        IN  /\ plan_out.total_estimated_time =
                   SumSeq([i \in 1..Len(plan_services) |->
                               IF i \in IncludedAt
                               THEN get_handler(plan_services[i]).timeout ELSE 0])
            /\ plan_out.complexity_score =
                   SumSeq([i \in 1..Len(plan_services) |->
                               IF i \in IncludedAt
                               THEN get_handler(plan_services[i]).complexity ELSE 0])
            /\ IF count = 0 THEN avg.num = 0
               ELSE avg.num * count = plan_out.complexity_score * avg.den

\* C32: a call of get_handler, get_all_services, get_categories,
\* validate_service_config, get_service_instructions or get_workflow_plan
\* leaves the catalog and the category index as they were: every step that
\* changes one of them is a register_service call.
C32_QueriesReadOnly ==
    [][(_services' # _services \/ _categories' # _categories)
           => Len(reg_log') = Len(reg_log) + 1]_vars

\* the planner asked for two keys after both were registered, under two
\* categories, and the index still as the two registrations left it
C32_Witness ==
    /\ Len(reg_log) = 2
    /\ last_query.op = "get_workflow_plan"
    /\ DOMAIN last_query.answer.category_groups = {"networking", "compute"}
    /\ _categories = [networking |-> <<"vpc">>, compute |-> <<"ec2">>]

(***************************************************************************)
(* Properties of the run as a whole (Spec)                                 *)
(***************************************************************************)
\* the services of the plan that had not been started when the time budget
\* of the run ran out
NotStartedAtDeadline ==
    IF HasKey(workflow_plan, "service_order")
    THEN {workflow_plan.service_order[i] :
              i \in (started_at_deadline + 1)..Len(workflow_plan.service_order)}
    ELSE {}

\* C21: once the time budget of the run (sum of the planned timeouts plus a
\* fixed margin) has run out, no further service is started; the services
\* not started by then are recorded as failed, and the report of the run
\* still lists the services completed before.
C21_RunTimeoutCancels ==
    run_overdue =>
        /\ Len(exec_log) = started_at_deadline
        /\ pc = "returned" =>
               /\ \A k \in NotStartedAtDeadline : Contains(failed_services, k)
               /\ result.status # "error" =>
                      result.services_added = completed_services

\* C22: when the Agent cannot be constructed, the per-service step is never
\* entered, no service is attempted or recorded as completed or failed, and
\* the report of the run is the initialization failure.
C22_InitFailureSkipsServices ==
    error_message.kind = "Browser initialization failed" =>
        /\ pc # "process_service"
        /\ exec_log = <<>>
        /\ completed_services = <<>>
        /\ failed_services = <<>>
        /\ pc = "returned" => result.status = "error" /\ result.error = error_message

(***************************************************************************)
(* Properties of the link extractor (SpecLink)                             *)
(***************************************************************************)
\* the positions of the result that hold an estimate id, in any form
IdPositions == {i \in 1..Len(link_result) : link_result[i].id # ""}

\* C23: the extractor returns the full link of the last estimate id of the
\* result, whichever of the three forms each occurrence uses, and None when
\* the result holds no estimate id and no calculator link.
C23_LastEstimateIdWins ==
    link_returned.kind # "not called" =>
        IF IdPositions # {}
        THEN LET last == CHOOSE i \in IdPositions : \A j \in IdPositions : j <= i
             IN  link_returned = FullLink(link_result[last].id)
        ELSE (\A i \in 1..Len(link_result) : link_result[i].form = "text")
                 => link_returned = [kind |-> "None"]

\* s is the front part of t
IsPrefix(s, t) == Len(s) <= Len(t) /\ SubSeq(t, 1, Len(s)) = s

\* C33: within a run the completed and failed lists only grow at their end,
\* no key is in both or twice in one, and no key is executed twice; a new
\* run starts from empty lists, and what earlier runs returned and recorded
\* stays as it was.
C33_RunsKeepOutcomes ==
    [][IF pc' = "plan_workflow"
       THEN /\ completed_services' = <<>>
            /\ failed_services' = <<>>
            /\ exec_log' = <<>>
            /\ IsPrefix(earlier_runs, earlier_runs')
            /\ pc = "returned" => earlier_runs'[Len(earlier_runs')] = RunRecord
       ELSE /\ IsPrefix(completed_services, completed_services')
            /\ IsPrefix(failed_services, failed_services')
            /\ IsPrefix(exec_log, exec_log')
            /\ earlier_runs' = earlier_runs
            /\ NoDuplicates(completed_services' \o failed_services')
            /\ NoDuplicates(KeysOf(exec_log'))]_vars

\* a second run under way that has completed ec2, after a first run that
\* completed vpc and failed ec2 and whose record is as the first run left it
C33_Witness ==
    /\ Len(earlier_runs) = 1
    /\ earlier_runs[1].completed_services = <<"vpc">>
    /\ earlier_runs[1].failed_services = <<"ec2">>
    /\ earlier_runs[1].result.status # "error"
    /\ earlier_runs[1].result.services_added = <<"vpc">>
    /\ completed_services = <<"ec2">>
    /\ failed_services = <<>>
    /\ pc = "returned"

\* C34: every run of the ServiceOrchestrator graph ends: the index never
\* decreases and never passes the length of service_order; an entry of
\* process_service increments it, sets error_message or finds it at the end,
\* and leads back to process_service only after an increment that leaves a
\* service to run; the run ends through finalize_estimate or handle_error,
\* and a started run returns.
C34_RunTerminates ==
    /\ [](current_service_index <= TotalServices(workflow_plan))
    /\ [][current_service_index' >= current_service_index]_vars
    /\ [][pc = "process_service" /\ pc' # pc =>
              \/ current_service_index' = current_service_index + 1
              \/ error_message'.kind # ""
              \/ current_service_index = TotalServices(workflow_plan)]_vars
    /\ [][pc = "process_service" /\ pc' = "process_service"
              /\ current_service_index' # current_service_index =>
              /\ current_service_index' = current_service_index + 1
              /\ current_service_index' < TotalServices(workflow_plan)]_vars
    /\ [][pc' = "END" /\ pc # "END" => pc \in {"finalize_estimate", "handle_error"}]_vars
    /\ (pc = "plan_workflow") ~> (pc = "returned")

\* a returned run that went three times round the loop of process_service
\* and left it to finalize_estimate
C34_Witness ==
    /\ pc = "returned"
    /\ Len(exec_log) = 3
    /\ current_service_index = 3
    /\ TotalServices(workflow_plan) = 3
    /\ error_message.kind # "Service processing error"

\* C35: while error_message is empty, the completed and failed lists hold
\* current_service_index keys between them, and these are the first
\* current_service_index keys of service_order, each in one list.
C35_ListsCoverProcessedPrefix ==
    error_message = NoError =>
        LET done == IF HasKey(workflow_plan, "service_order")
                    THEN SubSeq(workflow_plan.service_order, 1, current_service_index)
                    ELSE <<>>
        IN  /\ Len(completed_services) + Len(failed_services) = current_service_index
            /\ Len(done) = current_service_index
            /\ Range(completed_services) \cup Range(failed_services) = Range(done)
            /\ Range(completed_services) \cap Range(failed_services) = {}

\* in mid-run with no error: two of three services processed, the first
\* completed and the second failed, the third still to run
C35_Witness ==
    /\ pc = "process_service"
    /\ error_message = NoError
    /\ TotalServices(workflow_plan) = 3
    /\ current_service_index = 2
    /\ completed_services = <<workflow_plan.service_order[1]>>
    /\ failed_services = <<workflow_plan.service_order[2]>>

\* the entry's handler requires a field that the entry's configuration
\* omits and the handler's defaults supply
OmitsDefaulted(entry) ==
    /\ get_handler(entry.key) # NoHandler
    /\ \E f \in Range(get_handler(entry.key).required) :
           /\ f \notin entry.config
           /\ Bad(f) \notin entry.config
           /\ f \in get_default_config(get_handler(entry.key))

\* C36: validation sees the requested configuration as given: a request with
\* an entry that omits a required field is rejected with status error and no
\* service is executed, although the handler's defaults hold the field; the
\* defaults are merged in only when the instructions of an executed service
\* are written.
C36_ValidationIgnoresDefaults ==
    /\ (\E i \in 1..Len(services_config) : OmitsDefaulted(services_config[i])) =>
           /\ workflow_plan = EmptyPlan
           /\ browser_session = "None"
           /\ exec_log = <<>>
           /\ completed_services = <<>>
           /\ pc # "finalize_estimate"
           /\ pc = "returned" => result.status = "error"
    /\ \A i \in 1..Len(exec_log) :
           LET entry == services_config[IndexOf(KeysOf(services_config), exec_log[i].key)]
           IN  /\ ~OmitsDefaulted(entry)
               /\ entry.config \subseteq exec_log[i].instructed
               /\ \A f \in get_default_config(get_handler(entry.key)) :
                      f \in exec_log[i].instructed \/ Bad(f) \in exec_log[i].instructed

\* a returned run for ec2 with an empty configuration: rejected, nothing
\* executed, though the defaults of the handler hold instance_type
C36_Witness ==
    /\ pc = "returned"
    /\ services_config = <<[key |-> "ec2", config |-> {}]>>
    /\ "instance_type" \in get_default_config(get_handler("ec2"))
    /\ result.status = "error"
    /\ exec_log = <<>>

\* C37: every invocation of the backend through the wrapped _generate, a
\* retry like the first attempt, comes after a wait_if_needed call of its
\* own: the invocations made are as many as the wait_if_needed calls, each
\* of which counted one request, and the calls of the retries are spaced and
\* capped like any others.
C37_EveryAttemptWaits ==
    /\ Len(call_log) = Len(attempt_log) + (IF retry_pc = "waited" THEN 1 ELSE 0)
    /\ request_count <= requests_per_minute
    /\ \A i \in 1..Len(call_log) :
           /\ call_log[i].count_after \in {1, call_log[i].count_before + 1}
           /\ i > 1 =>
                  (call_log[i].proceeded - call_log[i-1].proceeded)
                      * requests_per_minute >= Window

\* three throttled attempts and a fourth that succeeded, on a limiter of cap
\* 3: four wait_if_needed calls, the fourth held at the cap
C37_Witness ==
    /\ requests_per_minute = 3
    /\ max_retries = 3
    /\ attempt_log = <<"throttle", "throttle", "throttle", "ok">>
    /\ retry_result.kind = "returned"
    /\ Len(call_log) = 4
    /\ ArrivedAtCap(call_log[4])

\* the order of the queue as the claim gives it
ClaimedQueueOrder == <<"vpc", "ec2", "rds", "s3", "load_balancer">>

\* C38: the queue of CostEstimationWorkflow is a permutation of the parsed
\* keys: those of vpc, ec2, rds, s3, load_balancer first, in that order, then
\* the other keys in request order; when the loop is left every key of the
\* queue has had one add attempt and is in exactly one of added_services and
\* failed_services.
C38_QueueOrderedAndCovered ==
    cew_pc \in {"add_single_service", "check_more_services", "generate_links",
                "format_result"} =>
        LET queue == services_to_add
            requested == KeysOf(parsed_services)
            first(k) == Contains(ClaimedQueueOrder, k)
        IN  /\ NoDuplicates(queue)
            /\ Len(queue) = Len(requested)
            /\ Range(queue) = Range(requested)
            /\ \A i, j \in 1..Len(queue) :
                   i < j =>
                       /\ first(queue[j]) =>
                              /\ first(queue[i])
                              /\ IndexOf(ClaimedQueueOrder, queue[i])
                                     < IndexOf(ClaimedQueueOrder, queue[j])
                       /\ ~first(queue[i]) =>
                              /\ ~first(queue[j])
                              /\ IndexOf(requested, queue[i]) < IndexOf(requested, queue[j])
            /\ cew_pc \in {"generate_links", "format_result"} =>
                   /\ KeysOf(add_log) = queue
                   /\ Range(added_services) \cap Range(cew_failed_services) = {}
                   /\ Range(added_services) \cup Range(cew_failed_services) = Range(queue)
                   /\ Len(added_services) + Len(cew_failed_services) = Len(queue)

\* lambda, s3 and cloudfront requested in that order: s3 is queued first,
\* the other two after it in request order; lambda failed, the others were
\* added
C38_Witness ==
    /\ cew_pc = "format_result"
    /\ KeysOf(parsed_services) = <<"lambda", "s3", "cloudfront">>
    /\ services_to_add = <<"s3", "lambda", "cloudfront">>
    /\ added_services = <<"s3", "cloudfront">>
    /\ cew_failed_services = <<"lambda">>

\* the messages parse_user_input and validate_configuration set
ValidationMessages ==
    {"Error parsing input", "No valid services found in user input", "Configuration errors"}

\* C39: in CostEstimationWorkflow handle_error and status error are reached
\* only from parsing and validation, before anything is queued or attempted;
\* an error_message set after validation does not stop the run: every queued
\* service is attempted and the result reports status success, whatever the
\* number of failed services.
C39_ErrorPathOnlyFromValidation ==
    /\ (cew_pc = "handle_error" \/ final_result.status = "error") =>
           /\ cew_error_message \in ValidationMessages
           /\ services_to_add = <<>>
           /\ add_log = <<>>
    /\ cew_pc \in {"prepare_services", "add_single_service", "check_more_services",
                   "generate_links", "format_result"} =>
           /\ cew_error_message \notin ValidationMessages
           /\ final_result.status = "none"
    /\ (cew_pc \in {"END", "returned"} /\ cew_error_message \notin ValidationMessages) =>
           /\ final_result.status = "success"
           /\ Len(services_to_add) = Len(parsed_services)
           /\ KeysOf(add_log) = services_to_add
           /\ final_result.summary.failed = Len(cew_failed_services)

\* navigation raised after validation had passed, the three queued services
\* were all attempted and all failed, and the run returned status success
C39_Witness ==
    /\ cew_pc = "returned"
    /\ cew_error_message = "Navigation error"
    /\ Len(add_log) = 3
    /\ added_services = <<>>
    /\ Len(cew_failed_services) = 3
    /\ final_result.status = "success"

\* C40: however many times a client was requested, the cached client's
\* _generate is wrapped exactly once and every request was handed that one
\* client; one call of it makes at most max_retries + 1 backend invocations,
\* with one wait_if_needed before each.
C40_WrappedExactlyOnce ==
    /\ _client # NoClient => _client.wraps = 1
    /\ \A i \in 1..Len(Handed(client_log)) : Handed(client_log)[i].returned = _client.id
    /\ generate_call.kind = "made" =>
           /\ generate_call.invocations <= GenerateMaxRetries + 1
           /\ generate_call.waits = generate_call.invocations

\* the client was handed out three times, by both entry points, and a call
\* made after that was throttled until the retries ran out
C40_Witness ==
    /\ Len(Handed(client_log)) = 3
    /\ \E i, j \in 1..3 : /\ client_log[i].op = "get_bedrock_llm"
                          /\ client_log[j].op = "create_bedrock_client"
    /\ generate_call.kind = "made"
    /\ generate_call.requests = 3
    /\ generate_call.invocations = GenerateMaxRetries + 1
    /\ generate_call.outcome = "throttle"

====
